---- MODULE Spec2Model ----
(***************************************************************************)
(* Model of the FMP data layer of earnings-call-agents:                    *)
(*   fetchJson (retrying HTTP JSON client), fetchFmpEarningsCalendar,      *)
(*   buildSymbolToExchangeMap with its disk cache (tryLoadCache,           *)
(*   persistCache) over successive process runs, filterNyseNasdaq, and     *)
(*   the transcript providers of transcript-provider.ts.                   *)
(*                                                                         *)
(* Strings are sequences of tokens.  A token is one character ("K", "&",   *)
(* "=", " ") or an indivisible piece of text ("apikey", "nasdaq", a fixed   *)
(* message fragment).  Numbers are integers; times are milliseconds.       *)
(***************************************************************************)
EXTENDS Integers, Sequences, FiniteSets, TLC

VARIABLES op, apiKey, fromDate, toDate, fj, cal, bld, tr, file, now, logs,
          prev, flt, run, rw

vars == <<op, apiKey, fromDate, toDate, fj, cal, bld, tr, file, now, logs,
          prev, flt, run, rw>>

(* the variables of the calls of one process; run is the state of main(),
   rw the state of the processes that share the cache file *)
callVars == <<op, apiKey, fromDate, toDate, fj, cal, bld, tr, file, now, logs,
              prev, flt>>

(***************************************************************************)
(* Bounds of the model                                                     *)
(***************************************************************************)
MaxKeyLen == 2

(* clock value at process start, in ms (8 days after the model's epoch) *)
StartTime == 8 * 24 * 60 * 60 * 1000

Hour == 60 * 60 * 1000

Day == 24 * Hour

(***************************************************************************)
(* Strings                                                                 *)
(***************************************************************************)
Range(s) == {s[i] : i \in 1..Len(s)}

SeqsUpTo(S, n) == UNION {[1..k -> S] : k \in 0..n}

(* s occurs in t as a contiguous run of tokens *)
Contains(t, s) ==
  \E i \in 1..(Len(t) + 1) :
     /\ i + Len(s) - 1 <= Len(t)
     /\ \A k \in 1..Len(s) : t[i + k - 1] = s[k]

IsSpace(c) == c = " "

RECURSIVE TrimStart(_)
TrimStart(s) ==
  IF s = <<>> THEN <<>>
  ELSE IF IsSpace(Head(s)) THEN TrimStart(Tail(s)) ELSE s

RECURSIVE TrimEnd(_)
TrimEnd(s) ==
  IF s = <<>> THEN <<>>
  ELSE IF IsSpace(s[Len(s)]) THEN TrimEnd(SubSeq(s, 1, Len(s) - 1)) ELSE s

(* String.prototype.trim *)
Trim(s) == TrimEnd(TrimStart(s))

UpperTok(c) ==
  CASE c = "a" -> "A"
    [] c = "b" -> "B"
    [] c = "c" -> "C"
    [] c = "nyse" -> "NYSE"
    [] c = "nasdaq" -> "NASDAQ"
    [] c = "amex" -> "AMEX"
    [] OTHER -> c

(* String.prototype.toUpperCase *)
ToUpperCase(s) == [i \in 1..Len(s) |-> UpperTok(s[i])]

(* encodeURIComponent: reserved characters are percent-escaped *)
EncodeTok(c) ==
  CASE c = "&" -> "%26"
    [] c = "=" -> "%3D"
    [] c = " " -> "%20"
    [] c = "?" -> "%3F"
    [] OTHER -> c

EncodeIdentity(s) == s

encodeURIComponent(s) == [i \in 1..Len(s) |-> EncodeTok(s[i])]

(***************************************************************************)
(* Constants of fmp-earnings.ts                                            *)
(***************************************************************************)
FMP_BASE == <<"https://financialmodelingprep.com/stable">>

NYSE_NASDAQ == {<<"NYSE">>, <<"NASDAQ">>}

CACHE_TTL_MS == 7 * 24 * 60 * 60 * 1000

MAX_ATTEMPTS_4 == 3 + 1

MAX_ATTEMPTS == 3

BASE_DELAY_MS == 500

(***************************************************************************)
(* safeUrl = url.replace(/apikey=[^&]+/, "apikey=REDACTED")                *)
(* Only the first match is replaced (the regex has no g flag); the match   *)
(* is greedy over the characters that are not "&".                         *)
(***************************************************************************)
MatchAt(u, i) ==
  /\ i + 2 <= Len(u)
  /\ u[i] = "apikey"
  /\ u[i + 1] = "="
  /\ u[i + 2] # "&"

MatchEnd(u, i) ==
  CHOOSE j \in (i + 2)..Len(u) :
     /\ \A k \in (i + 2)..j : u[k] # "&"
     /\ (j = Len(u) \/ u[j + 1] = "&")

RedactUrl(u) ==
  IF \E i \in 1..Len(u) : MatchAt(u, i)
  THEN LET i == CHOOSE m \in 1..Len(u) :
                   MatchAt(u, m) /\ \A l \in 1..(m - 1) : ~MatchAt(u, l)
           j == MatchEnd(u, i)
       IN  SubSeq(u, 1, i - 1) \o <<"apikey", "=", "REDACTED">>
             \o SubSeq(u, j + 1, Len(u))
  ELSE u

(***************************************************************************)
(* JSON values.  A scalar is undefined (field absent), null, a string or a *)
(* number; a number that JSON.parse read as Infinity (1e999) has fin FALSE. *)
(***************************************************************************)
Undef == [t |-> "undefined", s |-> <<>>, n |-> 0, fin |-> TRUE]

Null == [t |-> "null", s |-> <<>>, n |-> 0, fin |-> TRUE]

Str(x) == [t |-> "string", s |-> x, n |-> 0, fin |-> TRUE]

Num(k) == [t |-> "number", s |-> <<>>, n |-> k, fin |-> TRUE]

Infinity == [t |-> "number", s |-> <<>>, n |-> 0, fin |-> FALSE]

(* a ?? b *)
Coalesce(a, b) == IF a.t \in {"undefined", "null"} THEN b ELSE a

DigitChars == <<"0", "1", "2", "3", "4", "5", "6", "7", "8", "9">>

Digits == Range(DigitChars)

DigitVal(c) == CHOOSE k \in 0..9 : DigitChars[k + 1] = c

DigitTok(k) == DigitChars[k + 1]

(* the decimal text of a natural number *)
RECURSIVE NumText(_)
NumText(k) ==
  IF k < 10 THEN <<DigitTok(k)>> ELSE NumText(k \div 10) \o <<DigitTok(k % 10)>>

RECURSIVE DecimalValue(_)
DecimalValue(s) ==
  IF s = <<>> THEN 0
  ELSE 10 * DecimalValue(SubSeq(s, 1, Len(s) - 1)) + DigitVal(s[Len(s)])

(* the longest prefix of s made of digits *)
RECURSIVE LeadingDigits(_)
LeadingDigits(s) ==
  IF s = <<>> \/ Head(s) \notin Digits THEN <<>>
  ELSE <<Head(s)>> \o LeadingDigits(Tail(s))

(* parseInt(s, 10): leading white space is skipped, then the leading digits
   are read; with no leading digit the result is NaN *)
parseInt(s) ==
  LET d == LeadingDigits(TrimStart(s))
  IN  IF d = <<>> THEN [nan |-> TRUE, n |-> 0]
      ELSE [nan |-> FALSE, n |-> DecimalValue(d)]

(* String(v) for a scalar v that is not nullish *)
String(v) ==
  IF v.t = "string" THEN v.s
  ELSE IF v.t = "number" THEN (IF v.fin THEN NumText(v.n) ELSE <<"Infinity">>)
  ELSE <<v.t>>

(* Number(v): [kind, n] with kind finite, nan or inf.  A string is trimmed;
   the empty string converts to 0, a digit string to its value, the word
   Infinity to Infinity, anything else to NaN. *)
Number(v) ==
  IF v.t = "number"
  THEN (IF v.fin THEN [kind |-> "finite", n |-> v.n] ELSE [kind |-> "inf", n |-> 0])
  ELSE IF v.t = "string"
  THEN LET x == Trim(v.s)
       IN  IF x = <<>> THEN [kind |-> "finite", n |-> 0]
           ELSE IF Range(x) \subseteq Digits
           THEN [kind |-> "finite", n |-> DecimalValue(x)]
           ELSE IF x = <<"Infinity">> THEN [kind |-> "inf", n |-> 0]
           ELSE [kind |-> "nan", n |-> 0]
  ELSE IF v.t = "null" THEN [kind |-> "finite", n |-> 0]
  ELSE [kind |-> "nan", n |-> 0]

toNumberOrNull(v) ==
  IF v.t \in {"null", "undefined"} THEN Null
  ELSE LET x == Number(v)
       IN  IF x.kind = "finite" THEN Num(x.n) ELSE Null

(* One record of a list-shaped response; a field the record lacks is Undef *)
NoFields ==
  [symbol |-> Undef, date |-> Undef,
   epsActual |-> Undef, epsEstimated |-> Undef,
   revenueActual |-> Undef, revenueEstimated |-> Undef,
   exchangeShortName |-> Undef, exchange_short_name |-> Undef,
   exchange |-> Undef]

(* A parsed response body *)
JsonArray(items) ==
  [type |-> "array", errKey |-> FALSE, errMsg |-> <<>>, items |-> items]

JsonObject ==
  [type |-> "object", errKey |-> FALSE, errMsg |-> <<>>, items |-> <<>>]

JsonEnvelope(msg) ==
  [type |-> "object", errKey |-> TRUE, errMsg |-> msg, items |-> <<>>]

JsonNull == [type |-> "null", errKey |-> FALSE, errMsg |-> <<>>, items |-> <<>>]

JsonNone == [type |-> "none", errKey |-> FALSE, errMsg |-> <<>>, items |-> <<>>]

(* JSON.stringify(data).slice(0, 160), as one piece of text per body type *)
JsonText(body) == <<"<json>", body.type>>

EnvelopeNeverDetected(body) == FALSE

isErrorEnvelope(body) ==
  /\ body.type # "null"
  /\ body.type \in {"object", "array"}
  /\ body.type # "array"
  /\ body.errKey

(***************************************************************************)
(* What the HTTP layer can answer to one request                           *)
(***************************************************************************)
(* res.headers.get("Retry-After"): null when the header is absent, else its
   text.  secs is the delay in seconds that the header denotes: the number
   itself for the delay-seconds form, the distance from now for the
   HTTP-date form. *)
NoHeader == [present |-> FALSE, text |-> <<>>, secs |-> 0]

RetryAfterHeaders ==
  { NoHeader,
    [present |-> TRUE, text |-> <<>>, secs |-> 0],
    [present |-> TRUE, text |-> <<"2">>, secs |-> 2],
    [present |-> TRUE, text |-> <<"Wed, 21 Oct 2026 07:28:00 GMT">>, secs |-> 30] }

RetryStatusesAnd500 == {429, 503, 500}

RetryStatuses == {429, 503}

OtherErrorStatuses == {404, 500}

StatusTok(st) ==
  CASE st = 429 -> "429" [] st = 503 -> "503" [] st = 404 -> "404 Not Found"
    [] st = 500 -> "500 Internal Server Error"

AttemptTok(k) == CASE k = 1 -> "1" [] k = 2 -> "2" [] k = 3 -> "3" [] OTHER -> "4"

(* jitter() = 0.8 + Math.random() * 0.4, in thousandths: Math.random() is in
   [0, 1), so the factor is in [0.8, 1.2) *)
jitter == {800, 1199}

(* delayMs * jitter() *)
Jittered(delayMs, j) == (delayMs * j) \div 1000

(* setTimeout clamps a delay that is NaN or below 1 ms to 1 ms *)
SleptMs(w) == IF w.nan \/ w.ms < 1 THEN 1 ELSE w.ms

(***************************************************************************)
(* fetchJson(url): one frame.  pc is the position in the function:         *)
(*   idle      not called                                                  *)
(*   request   at the top of the loop body, about to await fetch(url)      *)
(*   sleeping  awaiting sleep(...)                                         *)
(*   returned  returned body                                               *)
(*   thrown    threw an Error with message err                             *)
(* attempt and delayMs are the function's locals.  The other fields record *)
(* what the call did: requests = HTTP requests issued, sleeps = sleeps     *)
(* started, outcome = how the last request ended, wait = the wait of the   *)
(* sleep in progress, prevWait = the kind of the wait before it, received  *)
(* = the body parsed from a 2xx response.                                  *)
(***************************************************************************)
NoWait ==
  [kind |-> "none", header |-> NoHeader, base |-> 0, nan |-> FALSE, ms |-> 0]

IdleFrame ==
  [pc |-> "idle", url |-> <<>>, safeUrl |-> <<>>, attempt |-> 0, delayMs |-> 0,
   requests |-> 0, sleeps |-> 0, outcome |-> "none", wait |-> NoWait,
   prevWait |-> "none", received |-> JsonNone, body |-> JsonNone, err |-> <<>>]

TransientOutcomes == {"neterr", "429", "503"}

(* entry of fetchJson: lines 94-102 *)
CallFetchJson(url) ==
  [IdleFrame EXCEPT !.pc = "request", !.url = url, !.safeUrl = RedactUrl(url),
                    !.attempt = 1, !.delayMs = BASE_DELAY_MS]

Throw(f, outcome, msg) ==
  [f EXCEPT !.pc = "thrown", !.requests = @ + 1, !.outcome = outcome,
            !.err = msg]

GoSleep(f, outcome, w) ==
  [f EXCEPT !.pc = "sleeping", !.requests = @ + 1, !.outcome = outcome,
            !.sleeps = @ + 1, !.wait = w]

(* delayMs * jitter() *)
BackoffWait(f, h, j) ==
  [kind |-> "backoff", header |-> h, base |-> f.delayMs, nan |-> FALSE,
   ms |-> Jittered(f.delayMs, j)]

(* retryAfter ? parseInt(retryAfter, 10) * 1_000 : delayMs * jitter() *)
RateLimitWait(f, h, j) ==
  IF h.present /\ h.text # <<>>
  THEN LET p == parseInt(h.text)
       IN  [kind |-> "retryAfter", header |-> h, base |-> f.delayMs,
            nan |-> p.nan, ms |-> p.n * 1000]
  ELSE BackoffWait(f, h, j)

DelayKept(d) == d

(* delayMs *= 2 *)
NextDelay(d) == d * 2

(* await fetch(url) rejects: lines 106-114 *)
FetchNetworkError ==
  /\ fj.pc = "request"
  /\ \E j \in jitter :
       fj' = IF fj.attempt = MAX_ATTEMPTS
             THEN Throw(fj, "neterr",
                        <<"[FMP] Network error after ", AttemptTok(fj.attempt),
                          " attempts - ">> \o fj.safeUrl \o <<": ", "<networkErr>">>)
             ELSE GoSleep(fj, "neterr", BackoffWait(fj, NoHeader, j))
  /\ UNCHANGED <<op, run, rw, prev, flt, apiKey, fromDate, toDate, cal, bld, file, now, logs, tr>>

FetchRateLimitedAlwaysSleeps ==
  /\ fj.pc = "request"
  /\ \E st \in RetryStatuses, h \in RetryAfterHeaders, j \in jitter :
       fj' = GoSleep(fj, StatusTok(st), RateLimitWait(fj, h, j))
  /\ UNCHANGED <<op, run, rw, prev, flt, apiKey, fromDate, toDate, cal, bld, file, now, logs, tr>>

(* the response has status 429 or 503: lines 117-128 *)
FetchRateLimited ==
  /\ fj.pc = "request"
  /\ \E st \in RetryStatuses, h \in RetryAfterHeaders, j \in jitter :
       fj' = IF fj.attempt < MAX_ATTEMPTS
             THEN GoSleep(fj, StatusTok(st), RateLimitWait(fj, h, j))
             ELSE Throw(fj, StatusTok(st),
                        <<"[FMP] Rate-limited (", StatusTok(st), ") after ",
                          AttemptTok(MAX_ATTEMPTS), " attempts - ">> \o fj.safeUrl)
  /\ UNCHANGED <<op, run, rw, prev, flt, apiKey, fromDate, toDate, cal, bld, file, now, logs, tr>>

(* any other status with !res.ok: lines 130-134 *)
FetchHttpError ==
  /\ fj.pc = "request"
  /\ \E st \in OtherErrorStatuses :
       fj' = Throw(fj, StatusTok(st),
                   <<"[FMP] HTTP ", StatusTok(st), " - ">> \o fj.safeUrl)
  /\ UNCHANGED <<op, run, rw, prev, flt, apiKey, fromDate, toDate, cal, bld, file, now, logs, tr>>

(* 2xx whose body res.json() cannot parse: lines 137-139 *)
FetchNonJson ==
  /\ fj.pc = "request"
  /\ fj' = Throw(fj, "200 non-JSON",
                 <<"[FMP] Non-JSON response from ">> \o fj.safeUrl)
  /\ UNCHANGED <<op, run, rw, prev, flt, apiKey, fromDate, toDate, cal, bld, file, now, logs, tr>>

(* the sleep ends: delayMs *= 2; continue; attempt++ and the loop test of
   line 102; line 151 is the statement after the loop *)
SleepDone ==
  /\ fj.pc = "sleeping"
  /\ now' = now + SleptMs(fj.wait)
  /\ fj' = IF fj.attempt + 1 <= MAX_ATTEMPTS
           THEN [fj EXCEPT !.pc = "request", !.attempt = @ + 1,
                           !.delayMs = NextDelay(@), !.wait = NoWait,
                           !.prevWait = fj.wait.kind]
           ELSE [fj EXCEPT !.pc = "thrown", !.attempt = @ + 1,
                           !.delayMs = NextDelay(@), !.wait = NoWait,
                           !.prevWait = fj.wait.kind,
                           !.err = <<"[FMP] Exhausted ", AttemptTok(MAX_ATTEMPTS),
                                     " attempts - ">> \o fj.safeUrl]
  /\ UNCHANGED <<op, run, rw, prev, flt, apiKey, fromDate, toDate, cal, bld, file, logs, tr>>

(***************************************************************************)
(* Response bodies the two endpoints are given in the model                *)
(***************************************************************************)
MaxItems == 2

CalendarItems ==
  { [NoFields EXCEPT !.symbol = Str(<<"a">>), !.date = Str(<<"2026-02-25">>),
                     !.epsActual = Num(2), !.epsEstimated = Str(<<>>),
                     !.revenueActual = Infinity,
                     !.revenueEstimated = Str(<<"x">>)],
    [NoFields EXCEPT !.symbol = Str(<<"B">>), !.date = Str(<<"2026-02-26">>),
                     !.epsActual = Str(<<"1", "2">>), !.epsEstimated = Null],
    [NoFields EXCEPT !.symbol = Str(<<" ">>), !.date = Str(<<"2026-02-25">>)],
    [NoFields EXCEPT !.symbol = Str(<<"a">>), !.date = Null] }

StockListItems ==
  { [NoFields EXCEPT !.symbol = Str(<<"a">>),
                     !.exchange_short_name = Str(<<"nasdaq">>)],
    [NoFields EXCEPT !.symbol = Str(<<"B">>),
                     !.exchangeShortName = Str(<<"NYSE">>),
                     !.exchange = Str(<<"amex">>)],
    [NoFields EXCEPT !.symbol = Str(<<"A">>), !.exchange = Str(<<"amex">>)],
    [NoFields EXCEPT !.symbol = Str(<<"b">>),
                     !.exchangeShortName = Str(<<>>),
                     !.exchange = Str(<<"nyse">>)],
    [NoFields EXCEPT !.exchangeShortName = Str(<<"NYSE">>)] }

OtherBodies ==
  {JsonObject, JsonNull, JsonEnvelope(<<"Invalid API KEY.">>)}

ResponseBodies(o) ==
  OtherBodies \cup
    {JsonArray(items) :
       items \in SeqsUpTo(IF o = "calendar" THEN CalendarItems ELSE StockListItems,
                          MaxItems)}

(* 2xx with a JSON body: lines 137-148 *)
FetchOk ==
  /\ fj.pc = "request"
  /\ \E body \in ResponseBodies(op) :
       fj' = IF isErrorEnvelope(body)
             THEN [Throw(fj, "200 json",
                         <<"[FMP] API error: ">> \o body.errMsg \o <<" - ">>
                           \o fj.safeUrl)
                     EXCEPT !.received = body]
             ELSE [fj EXCEPT !.pc = "returned", !.requests = @ + 1,
                             !.outcome = "200 json", !.received = body,
                             !.body = body]
  /\ UNCHANGED <<op, run, rw, prev, flt, apiKey, fromDate, toDate, cal, bld, file, now, logs, tr>>

(***************************************************************************)
(* assertApiKey(apiKey, context)                                           *)
(***************************************************************************)
ApiKeyMissing(key) == key = <<>> \/ Trim(key) = <<>>

MissingKeyMessage(context) ==
  <<"[FMP] Missing API key in ", context,
    ". Set FMP_API_KEY in your environment or .env file.">>

(***************************************************************************)
(* fetchFmpEarningsCalendar(fromDate, toDate, apiKey)                      *)
(***************************************************************************)
CalendarIdle == [pc |-> "start", events |-> <<>>, err |-> <<>>]

CalendarUrl(from, to, key) ==
  FMP_BASE \o <<"/earnings-calendar">>
    \o <<"?", "from", "=">> \o encodeURIComponent(from)
    \o <<"&", "to", "=">> \o encodeURIComponent(to)
    \o <<"&", "apikey", "=">> \o encodeURIComponent(key)

(* String(item[field] ?? "").trim() *)
FieldText(v) == Trim(String(Coalesce(v, Str(<<>>))))

AnyRecordUsable(item) == TRUE

CalendarUsable(item) ==
  FieldText(item.symbol) # <<>> /\ FieldText(item.date) # <<>>

EarningsEvent(item) ==
  [symbol |-> FieldText(item.symbol),
   reportDate |-> FieldText(item.date),
   epsActual |-> toNumberOrNull(item.epsActual),
   epsEstimated |-> toNumberOrNull(item.epsEstimated),
   revenueActual |-> toNumberOrNull(item.revenueActual),
   revenueEstimated |-> toNumberOrNull(item.revenueEstimated),
   raw |-> item]

NormaliseCalendar(items) ==
  LET kept == SelectSeq(items, CalendarUsable)
  IN  [i \in 1..Len(kept) |-> EarningsEvent(kept[i])]

SkipWarning ==
  <<"[FMP] earnings-calendar: skipping record missing symbol or date:", "<json>">>

(* lines 204-212: the key check, the URL, the call of fetchJson *)
CalendarStart ==
  /\ op = "calendar"
  /\ cal.pc = "start"
  /\ IF ApiKeyMissing(apiKey)
     THEN /\ cal' = [cal EXCEPT !.pc = "thrown",
                       !.err = MissingKeyMessage("fetchFmpEarningsCalendar")]
          /\ fj' = fj
     ELSE /\ cal' = [cal EXCEPT !.pc = "fetching"]
          /\ fj' = CallFetchJson(CalendarUrl(fromDate, toDate, apiKey))
  /\ UNCHANGED <<op, run, rw, prev, flt, apiKey, fromDate, toDate, bld, file, now, logs, tr>>

(* fetchJson threw: the error propagates out of line 212 *)
CalendarFetchThrows ==
  /\ op = "calendar"
  /\ cal.pc = "fetching"
  /\ fj.pc = "thrown"
  /\ cal' = [cal EXCEPT !.pc = "thrown", !.err = fj.err]
  /\ UNCHANGED <<op, run, rw, prev, flt, apiKey, fromDate, toDate, fj, bld, file, now, logs, tr>>

(* fetchJson returned: lines 214-247 *)
CalendarFinish ==
  /\ op = "calendar"
  /\ cal.pc = "fetching"
  /\ fj.pc = "returned"
  /\ IF fj.body.type # "array"
     THEN /\ cal' = [cal EXCEPT !.pc = "thrown",
                       !.err = <<"[FMP] earnings-calendar: expected JSON array, got: ">>
                                 \o JsonText(fj.body)]
          /\ logs' = logs
     ELSE /\ cal' = [cal EXCEPT !.pc = "returned",
                       !.events = NormaliseCalendar(fj.body.items)]
          /\ logs' = IF \E i \in 1..Len(fj.body.items) :
                          ~CalendarUsable(fj.body.items[i])
                     THEN logs \cup {SkipWarning}
                     ELSE logs
  /\ UNCHANGED <<op, run, rw, prev, flt, apiKey, fromDate, toDate, fj, bld, file, now, tr>>

(***************************************************************************)
(* The cache file .fmp-symbol-cache.json                                   *)
(*   file.state   absent, unreadable (readFile rejects) or present         *)
(*   file.text    the content: json FALSE when JSON.parse rejects it, else *)
(*                the value it parses to                                   *)
(* A parsed value has a type; for an object, builtAt and entries are its   *)
(* fields (Undef when absent), entries being an array or not; an element   *)
(* of entries is an object with fields symbol and exchange, or null, or a  *)
(* number.                                                                 *)
(***************************************************************************)
Entry(sym, exch) == [type |-> "object", symbol |-> sym, exchange |-> exch]

NullEntry == [type |-> "null", symbol |-> Undef, exchange |-> Undef]

CacheObject(builtAt, isArray, entries) ==
  [type |-> "object", builtAt |-> builtAt, entriesIsArray |-> isArray,
   entries |-> entries]

CacheNonObject(type) ==
  [type |-> type, builtAt |-> Undef, entriesIsArray |-> FALSE, entries |-> <<>>]

(* what JSON.parse reads back for a scalar that JSON.stringify wrote: JSON
   has no Infinity or NaN, they are written as null; an undefined field is
   left out and is absent again after parsing *)
JsonScalar(v) == IF v.t = "number" /\ ~v.fin THEN Null ELSE v

(* JSON.stringify(payload), as the value JSON.parse(raw) reads from it *)
JsonStringify(value) ==
  [json |-> TRUE,
   value |-> [type |-> value.type,
              builtAt |-> JsonScalar(value.builtAt),
              entriesIsArray |-> value.entriesIsArray,
              entries |-> [i \in 1..Len(value.entries) |->
                             [type |-> value.entries[i].type,
                              symbol |-> JsonScalar(value.entries[i].symbol),
                              exchange |-> JsonScalar(value.entries[i].exchange)]]]]

GarbageText == [json |-> FALSE, value |-> CacheNonObject("none")]

AbsentFile == [state |-> "absent", text |-> GarbageText]

PresentFile(text) == [state |-> "present", text |-> text]

(* a map is the sequence of its entries in insertion order, keys distinct *)
MapHas(m, k) == \E i \in 1..Len(m) : m[i].symbol = k

(* Map.prototype.set *)
MapSet(m, k, v) ==
  IF MapHas(m, k)
  THEN [i \in 1..Len(m) |->
          IF m[i].symbol = k THEN [symbol |-> k, exchange |-> v] ELSE m[i]]
  ELSE Append(m, [symbol |-> k, exchange |-> v])

(* new Map(pairs) *)
RECURSIVE MapFromPairs(_)
MapFromPairs(pairs) ==
  IF pairs = <<>> THEN <<>>
  ELSE LET last == pairs[Len(pairs)]
       IN  MapSet(MapFromPairs(SubSeq(pairs, 1, Len(pairs) - 1)),
                  last.symbol, last.exchange)

StaleAfterOneDay(age) == age > 24 * 60 * 60 * 1000

(* Date.now() - payload.builtAt > CACHE_TTL_MS *)
IsStale(age) == age > CACHE_TTL_MS

CorruptLog == <<"[FMP] Symbol cache file is corrupt; will rebuild.">>

StructureLog == <<"[FMP] Symbol cache has unexpected structure; will rebuild.">>

StaleLog == <<"[FMP] Symbol cache is stale (> 7 days); will refresh from API.">>

Miss(log) ==
  [result |-> "miss", map |-> <<>>, builtAt |-> 0, log |-> log, err |-> <<>>]

TypeError(what) ==
  [result |-> "throw", map |-> <<>>, builtAt |-> 0, log |-> {},
   err |-> <<"TypeError: ", what>>]

(* tryLoadCache(): lines 351-387.  Reading a property of null (line 371) and
   destructuring a null element (line 384) throw a TypeError that no catch
   block of the function covers. *)
tryLoadCache(f, t) ==
  IF f.state # "present" THEN Miss({})
  ELSE IF ~f.text.json THEN Miss({CorruptLog})
  ELSE LET payload == f.text.value
       IN  IF payload.type = "null"
           THEN TypeError("Cannot read properties of null (reading 'builtAt')")
           ELSE IF payload.builtAt.t # "number" \/ ~payload.entriesIsArray
           THEN Miss({StructureLog})
           ELSE IF IsStale(t - payload.builtAt.n)
           THEN Miss({StaleLog})
           ELSE IF \E i \in 1..Len(payload.entries) :
                      payload.entries[i].type = "null"
           THEN TypeError("Cannot destructure property 'symbol' of null")
           ELSE [result |-> "hit",
                 map |-> MapFromPairs(payload.entries),
                 builtAt |-> payload.builtAt.n, log |-> {}, err |-> <<>>]

PayloadOfFirstEntry(map, t) ==
  CacheObject(Num(t), TRUE, <<Entry(map[1].symbol, map[1].exchange)>>)

(* the payload persistCache builds: lines 390-396 *)
CachePayload(map, t) ==
  CacheObject(Num(t), TRUE,
              [i \in 1..Len(map) |-> Entry(map[i].symbol, map[i].exchange)])

WriteOutcomes == {"ok", "failed", "failedTruncated"}

FileLeftAlone(f, payload, outcome) == f

WriteWarning == <<"[FMP] Could not write symbol cache to ", "<CACHE_PATH>", ": ", "<err>">>

(* fs.writeFile(CACHE_PATH, JSON.stringify(payload)): it succeeds, or fails
   before touching the file (EACCES), or fails after truncating it (ENOSPC) *)
FileAfterWrite(f, payload, outcome) ==
  CASE outcome = "ok" -> PresentFile(JsonStringify(payload))
    [] outcome = "failed" -> f
    [] outcome = "failedTruncated" -> PresentFile(GarbageText)

PersistRethrows(f, map, t, outcome) ==
  [file |-> FileAfterWrite(f, CachePayload(map, t), outcome),
   logs |-> IF outcome = "ok" THEN {} ELSE {WriteWarning},
   threw |-> outcome # "ok"]

(* persistCache(map) at time t: lines 389-403.  The catch block of lines
   399-402 logs a failed write, and the call completes normally *)
persistCache(f, map, t, outcome) ==
  [file |-> FileAfterWrite(f, CachePayload(map, t), outcome),
   logs |-> IF outcome = "ok" THEN {} ELSE {WriteWarning},
   threw |-> FALSE]

(***************************************************************************)
(* buildSymbolToExchangeMap(apiKey): one call.  map, err are its result;   *)
(* the other fields record what it did: seen = the cache file as           *)
(* tryLoadCache found it at time loadedAt, source = where the returned map *)
(* came from, write = how persistCache's write ended, written = the        *)
(* payload it passed to writeFile at time writtenAt.                       *)
(***************************************************************************)
NoPayload == CacheNonObject("none")

BuildIdle ==
  [pc |-> "start", map |-> <<>>, err |-> <<>>, source |-> "none",
   seen |-> AbsentFile, loadedAt |-> 0, write |-> "none", written |-> NoPayload,
   writtenAt |-> 0]

StockListUrl(key) ==
  FMP_BASE \o <<"/stock-list">> \o <<"?", "apikey", "=">> \o encodeURIComponent(key)

(* String(item["symbol"] ?? "").toUpperCase().trim() *)
UpperText(v) == Trim(ToUpperCase(String(Coalesce(v, Str(<<>>)))))

(* item["exchangeShortName"] ?? item["exchange_short_name"] ?? item["exchange"] ?? "" *)
ExchangeRaw(item) ==
  Coalesce(item.exchangeShortName,
           Coalesce(item.exchange_short_name,
                    Coalesce(item.exchange, Str(<<>>))))

RECURSIVE BuildMapAllOrNothing(_)
BuildMapAllOrNothing(items) ==
  IF items = <<>> THEN <<>>
  ELSE LET rest == BuildMapAllOrNothing(SubSeq(items, 1, Len(items) - 1))
           item == items[Len(items)]
           sym  == UpperText(item.symbol)
           exch == UpperText(ExchangeRaw(item))
       IN  IF sym # <<>> /\ exch # <<>> /\ (Len(items) = 1 \/ rest # <<>>)
           THEN MapSet(rest, Str(sym), Str(exch))
           ELSE <<>>

(* the loop of lines 320-332 *)
RECURSIVE BuildMap(_)
BuildMap(items) ==
  IF items = <<>> THEN <<>>
  ELSE LET rest == BuildMap(SubSeq(items, 1, Len(items) - 1))
           item == items[Len(items)]
           sym  == UpperText(item.symbol)
           exch == UpperText(ExchangeRaw(item))
       IN  IF sym # <<>> /\ exch # <<>>
           THEN MapSet(rest, Str(sym), Str(exch))
           ELSE rest

CacheHitLog ==
  <<"[FMP] Symbol-exchange map: loaded from cache (", "<size>", " symbols, cached ",
    "<age>", " ago).">>

CacheMissLog == <<"[FMP] Symbol-exchange map: cache miss - fetching /stable/stock-list...">>

BuiltLog ==
  <<"[FMP] Symbol-exchange map: built from API and cached (", "<size>",
    " symbols -> ", "<CACHE_PATH>", ").">>

(* the three errors of lines 303-339 *)
NotArrayError(body) ==
  <<"[FMP] stock-list: expected JSON array, got: ">> \o JsonText(body)

EmptyArrayError ==
  <<"[FMP] stock-list: response was an empty array - ",
    "verify API key permissions or try again later.">>

ZeroEntriesSaysEmpty == EmptyArrayError

ZeroEntriesError ==
  <<"[FMP] stock-list: parsed 0 valid symbol-exchange pairs. ",
    "Response shape may have changed - inspect the raw payload.">>

(* lines 285-301: the key check, tryLoadCache, and on a miss the call of
   fetchJson *)
BuildStart ==
  /\ op = "build"
  /\ bld.pc = "start"
  /\ IF ApiKeyMissing(apiKey)
     THEN /\ bld' = [bld EXCEPT !.pc = "thrown",
                       !.err = MissingKeyMessage("buildSymbolToExchangeMap")]
          /\ UNCHANGED <<fj, logs>>
     ELSE LET cached == tryLoadCache(file, now)
          IN  CASE cached.result = "hit" ->
                     /\ bld' = [bld EXCEPT !.pc = "returned", !.map = cached.map,
                                  !.source = "cache", !.seen = file,
                                  !.loadedAt = now]
                     /\ logs' = logs \cup {CacheHitLog}
                     /\ fj' = fj
                [] cached.result = "throw" ->
                     /\ bld' = [bld EXCEPT !.pc = "thrown", !.err = cached.err,
                                  !.seen = file, !.loadedAt = now]
                     /\ UNCHANGED <<fj, logs>>
                [] cached.result = "miss" ->
                     /\ bld' = [bld EXCEPT !.pc = "fetching", !.seen = file,
                                  !.loadedAt = now]
                     /\ logs' = logs \cup cached.log \cup {CacheMissLog}
                     /\ fj' = CallFetchJson(StockListUrl(apiKey))
  /\ UNCHANGED <<op, run, rw, prev, flt, apiKey, fromDate, toDate, cal, file, now, tr>>

BuildFetchThrowsAndDeletes ==
  /\ op = "build"
  /\ bld.pc = "fetching"
  /\ fj.pc = "thrown"
  /\ bld' = [bld EXCEPT !.pc = "thrown", !.err = fj.err]
  /\ file' = AbsentFile
  /\ UNCHANGED <<op, run, rw, prev, flt, apiKey, fromDate, toDate, fj, cal, now, logs, tr>>

(* fetchJson threw: the error propagates out of line 301 *)
BuildFetchThrows ==
  /\ op = "build"
  /\ bld.pc = "fetching"
  /\ fj.pc = "thrown"
  /\ bld' = [bld EXCEPT !.pc = "thrown", !.err = fj.err]
  /\ UNCHANGED <<op, run, rw, prev, flt, apiKey, fromDate, toDate, fj, cal, file, now, logs, tr>>

(* fetchJson returned: lines 303-346, persistCache included *)
BuildFinish ==
  /\ op = "build"
  /\ bld.pc = "fetching"
  /\ fj.pc = "returned"
  /\ IF fj.body.type # "array"
     THEN /\ bld' = [bld EXCEPT !.pc = "thrown", !.err = NotArrayError(fj.body)]
          /\ UNCHANGED <<file, logs>>
     ELSE IF Len(fj.body.items) = 0
     THEN /\ bld' = [bld EXCEPT !.pc = "thrown", !.err = EmptyArrayError]
          /\ UNCHANGED <<file, logs>>
     ELSE LET map == BuildMap(fj.body.items)
          IN  IF Len(map) = 0
              THEN /\ bld' = [bld EXCEPT !.pc = "thrown", !.err = ZeroEntriesError]
                   /\ UNCHANGED <<file, logs>>
              ELSE \E outcome \in WriteOutcomes :
                     LET saved == persistCache(file, map, now, outcome)
                         done  == [bld EXCEPT !.write = outcome,
                                     !.written = CachePayload(map, now),
                                     !.writtenAt = now]
                     IN  /\ file' = saved.file
                         /\ logs' = logs \cup saved.logs \cup
                                      (IF saved.threw THEN {} ELSE {BuiltLog})
                         /\ bld' = IF saved.threw
                                   THEN [done EXCEPT !.pc = "thrown",
                                           !.err = <<"<err>">>]
                                   ELSE [done EXCEPT !.pc = "returned",
                                           !.map = map, !.source = "network"]
  /\ UNCHANGED <<op, run, rw, prev, flt, apiKey, fromDate, toDate, fj, cal, now, tr>>

(***************************************************************************)
(* Successive process runs.  A process calls buildSymbolToExchangeMap once *)
(* (run.ts line 116, through fetchUsEarningsCalendar); the cache file is   *)
(* what one run leaves to the next.  prev records how the build of the     *)
(* previous run ended, and the map and the time of its successful write.   *)
(***************************************************************************)
MaxRuns == 2

FirstRun ==
  [run |-> 1, pc |-> "none", source |-> "none", write |-> "none", map |-> <<>>,
   writtenAt |-> 0]

(* a later run starts at the next full hour *)
NextRunStart(t) == (t \div Hour + 1) * Hour

(* the process ends and is started again later *)
NextRun ==
  /\ op = "build"
  /\ bld.pc \in {"returned", "thrown"}
  /\ prev.run < MaxRuns
  /\ now' = NextRunStart(now)
  /\ prev' = [run |-> prev.run + 1, pc |-> bld.pc, source |-> bld.source,
              write |-> bld.write,
              map |-> IF bld.write = "ok" THEN bld.map ELSE <<>>,
              writtenAt |-> IF bld.write = "ok" THEN bld.writtenAt ELSE 0]
  /\ bld' = BuildIdle
  /\ fj' = IdleFrame
  /\ logs' = {}
  /\ UNCHANGED <<op, run, rw, flt, apiKey, fromDate, toDate, cal, file, tr>>

(***************************************************************************)
(* transcript-provider.ts: NinjasTranscriptProvider, FmpTranscriptProvider *)
(***************************************************************************)
NINJAS_URL == <<"https://api.api-ninjas.com/v1/earningstranscript">>

FMP_TRANSCRIPT_URL == <<"https://financialmodelingprep.com/stable/earning-call-transcript">>

ProviderName(o) == IF o = "ninjas" THEN "API Ninjas" ELSE "FMP"

(* callDate.split("-") *)
RECURSIVE Split(_, _)
Split(s, sep) ==
  IF \E i \in 1..Len(s) : s[i] = sep
  THEN LET i == CHOOSE m \in 1..Len(s) :
                   s[m] = sep /\ \A l \in 1..(m - 1) : s[l] # sep
       IN  <<SubSeq(s, 1, i - 1)>> \o Split(SubSeq(s, i + 1, Len(s)), sep)
  ELSE <<s>>

QuarterOfCalendar(year, month) ==
  IF month <= 3 THEN [year |-> year, quarter |-> 1]
  ELSE IF month <= 6 THEN [year |-> year, quarter |-> 2]
  ELSE IF month <= 9 THEN [year |-> year, quarter |-> 3]
  ELSE [year |-> year, quarter |-> 4]

(* lines 313-316 of dateToFiscalYearQuarter *)
QuarterOfMonth(year, month) ==
  IF month <= 3 THEN [year |-> year - 1, quarter |-> 4]
  ELSE IF month <= 6 THEN [year |-> year, quarter |-> 1]
  ELSE IF month <= 9 THEN [year |-> year, quarter |-> 2]
  ELSE [year |-> year, quarter |-> 3]

(* dateToFiscalYearQuarter(callDate): ok FALSE when it throws; parseInt of a
   part that split did not produce (undefined) is NaN *)
dateToFiscalYearQuarter(callDate) ==
  LET parts == Split(callDate, "-")
      year  == parseInt(parts[1])
      month == IF Len(parts) >= 2 THEN parseInt(parts[2])
               ELSE [nan |-> TRUE, n |-> 0]
  IN  IF year.nan \/ month.nan
      THEN [ok |-> FALSE, year |-> 0, quarter |-> 0]
      ELSE [ok |-> TRUE] @@ QuarterOfMonth(year.n, month.n)

PeriodText(year, quarter) == NumText(year) \o <<"Q">> \o NumText(quarter)

(* A response body of a transcript endpoint.  first is the value the code
   calls raw: the first element of an array (t "undefined" for an empty
   array) or the body itself. *)
Turn(speaker, text) == [speaker |-> speaker, text |-> text]

NoRaw ==
  [t |-> "undefined", transcript |-> Undef, content |-> Undef,
   splitIsArray |-> FALSE, split |-> <<>>,
   bySpeakerIsArray |-> FALSE, bySpeaker |-> <<>>]

RawObject == [NoRaw EXCEPT !.t = "object"]

TBody(type, first) ==
  [type |-> type, errKey |-> FALSE, errMsg |-> <<>>, first |-> first]

TEnvelope(msg) ==
  [type |-> "object", errKey |-> TRUE, errMsg |-> msg, first |-> RawObject]

NoTBody == TBody("none", NoRaw)

(* raw["transcript_split"] ?? raw["transcript_by_speaker"], when it is a
   non-empty array *)
SpeakerTurns(raw) ==
  IF raw.splitIsArray THEN raw.split
  ELSE IF raw.bySpeakerIsArray THEN raw.bySpeaker
  ELSE <<>>

TurnLine(turn) ==
  Trim(String(Coalesce(turn.speaker, Str(<<"Unknown">>)))) \o <<": ">>
    \o Trim(String(Coalesce(turn.text, Str(<<>>))))

TurnAlwaysHasText(turn) == TRUE

(* if (text) of line 177 *)
TurnHasText(turn) == Trim(String(Coalesce(turn.text, Str(<<>>)))) # <<>>

(* lines.join("\n\n") *)
RECURSIVE JoinLines(_)
JoinLines(lines) ==
  IF lines = <<>> THEN <<>>
  ELSE IF Len(lines) = 1 THEN lines[1]
  ELSE lines[1] \o <<"\n\n">> \o JoinLines(Tail(lines))

(* extractNinjasText(raw, ...): the text, or <<>> when it throws
   TranscriptNotFoundError *)
extractNinjasText(raw) ==
  LET kept  == SelectSeq(SpeakerTurns(raw), TurnHasText)
      lines == [i \in 1..Len(kept) |-> TurnLine(kept[i])]
  IN  IF lines # <<>> THEN JoinLines(lines)
      ELSE Trim(String(Coalesce(raw.transcript, Str(<<>>))))

FmpTextUntrimmed(raw) == String(Coalesce(raw.content, Str(<<>>)))

(* String(record["content"] ?? "").trim() *)
FmpText(raw) == Trim(String(Coalesce(raw.content, Str(<<>>))))

(* One fetchTranscript call of a provider constructed with apiKey.  pc:
     new      the provider is not constructed yet
     ready    constructed, fetchTranscript not called
     request  awaiting fetch(url)
     returned returned transcript
     thrown   the constructor or fetchTranscript threw err *)
NoError ==
  [class |-> "none", msg |-> <<>>, symbol |-> <<>>, callDate |-> <<>>,
   providerName |-> "none"]

PlainError(msg) == [NoError EXCEPT !.class = "Error", !.msg = msg]

(* new TranscriptNotFoundError(symbol, callDate, providerName) *)
TranscriptNotFoundError(symbol, callDate, providerName) ==
  [class |-> "TranscriptNotFoundError",
   msg |-> <<"[", providerName, "] No transcript found for ">> \o symbol
             \o <<" (call date ">> \o callDate \o <<").">>,
   symbol |-> symbol, callDate |-> callDate, providerName |-> providerName]

NoTranscript == [symbol |-> <<>>, callDate |-> <<>>, text |-> <<>>, raw |-> NoRaw]

TranscriptFrame(symbol, callDate) ==
  [pc |-> "new", symbol |-> symbol, callDate |-> callDate, year |-> 0,
   quarter |-> 0, url |-> <<>>, header |-> <<>>, requests |-> 0,
   outcome |-> "none", received |-> NoTBody, transcript |-> NoTranscript,
   err |-> NoError]

ProviderOps == {"ninjas", "fmpTranscript"}

CredentialAccepted(key) == FALSE

(* !apiKey?.trim() of the constructors: lines 113 and 228 *)
CredentialMissing(key) == key = <<>> \/ Trim(key) = <<>>

(* the constructors: lines 112-118 and 227-233 *)
ProviderConstruct ==
  /\ op \in ProviderOps
  /\ tr.pc = "new"
  /\ tr' = IF CredentialMissing(apiKey)
           THEN [tr EXCEPT !.pc = "thrown",
                   !.err = PlainError(<<"[", ProviderName(op), "] Missing API key. Set ",
                                        IF op = "ninjas" THEN "NINJAS_API_KEY"
                                        ELSE "FMP_API_KEY",
                                        " in your environment.">>)]
           ELSE [tr EXCEPT !.pc = "ready"]
  /\ UNCHANGED <<op, run, rw, prev, flt, apiKey, fromDate, toDate, fj, cal, bld, file, now, logs>>

NinjasRequestUrl(symbol, p) ==
  NINJAS_URL \o <<"?", "ticker", "=">> \o encodeURIComponent(ToUpperCase(symbol))
    \o <<"&", "year", "=">> \o NumText(p.year)
    \o <<"&", "quarter", "=">> \o NumText(p.quarter)

FmpRequestUrl(symbol, p, key) ==
  FMP_TRANSCRIPT_URL \o <<"?", "symbol", "=">> \o encodeURIComponent(ToUpperCase(symbol))
    \o <<"&", "year", "=">> \o NumText(p.year)
    \o <<"&", "quarter", "=">> \o NumText(p.quarter)
    \o <<"&", "apikey", "=">> \o encodeURIComponent(key)

(* fetchTranscript up to its await fetch(...): lines 121-130 and 236-244 *)
TranscriptStart ==
  /\ op \in ProviderOps
  /\ tr.pc = "ready"
  /\ LET p == dateToFiscalYearQuarter(tr.callDate)
     IN  tr' = IF ~p.ok
               THEN [tr EXCEPT !.pc = "thrown",
                       !.err = PlainError(<<"[TranscriptProvider] Invalid callDate \"">>
                                 \o tr.callDate
                                 \o <<"\" - expected ISO-8601 (YYYY-MM-DD).">>)]
               ELSE [tr EXCEPT !.pc = "request", !.year = p.year,
                       !.quarter = p.quarter,
                       !.url = IF op = "ninjas"
                               THEN NinjasRequestUrl(tr.symbol, p)
                               ELSE FmpRequestUrl(tr.symbol, p, apiKey),
                       !.header = IF op = "ninjas" THEN apiKey ELSE <<>>]
  /\ UNCHANGED <<op, run, rw, prev, flt, apiKey, fromDate, toDate, fj, cal, bld, file, now, logs>>

TranscriptThrow(f, outcome, e) ==
  [f EXCEPT !.pc = "thrown", !.requests = @ + 1, !.outcome = outcome, !.err = e]

ForPeriod(f) == f.symbol \o <<" ">> \o PeriodText(f.year, f.quarter) \o <<".">>

(* await fetch(...) rejects: the rejection propagates unchanged *)
TranscriptNetworkError ==
  /\ op \in ProviderOps
  /\ tr.pc = "request"
  /\ tr' = TranscriptThrow(tr, "neterr",
             [NoError EXCEPT !.class = "TypeError", !.msg = <<"fetch failed">>])
  /\ UNCHANGED <<op, run, rw, prev, flt, apiKey, fromDate, toDate, fj, cal, bld, file, now, logs>>

TranscriptStatuses == {404, 429, 500, 503}

(* a status that is not 2xx: lines 132-139 and 246-255 *)
TranscriptHttpError ==
  /\ op \in ProviderOps
  /\ tr.pc = "request"
  /\ \E st \in TranscriptStatuses :
       tr' = TranscriptThrow(tr, StatusTok(st),
               IF st = 404
               THEN TranscriptNotFoundError(tr.symbol, tr.callDate, ProviderName(op))
               ELSE PlainError(<<"[", ProviderName(op), "] HTTP ", StatusTok(st),
                                 " for ">> \o ForPeriod(tr)))
  /\ UNCHANGED <<op, run, rw, prev, flt, apiKey, fromDate, toDate, fj, cal, bld, file, now, logs>>

(* 2xx whose body res.json() cannot parse: lines 141-143 and 257-259 *)
TranscriptNonJson ==
  /\ op \in ProviderOps
  /\ tr.pc = "request"
  /\ tr' = TranscriptThrow(tr, "200 non-JSON",
             PlainError(<<"[", ProviderName(op), "] Non-JSON response for ">>
                          \o ForPeriod(tr)))
  /\ UNCHANGED <<op, run, rw, prev, flt, apiKey, fromDate, toDate, fj, cal, bld, file, now, logs>>

NinjasBodies ==
  { TBody("object", [RawObject EXCEPT !.transcript = Str(<<"flat text">>)]),
    TBody("object", [RawObject EXCEPT !.splitIsArray = TRUE,
                       !.split = <<Turn(Str(<<"Ann">>), Str(<<"hello">>)),
                                   Turn(Str(<<"Bob">>), Str(<<" ">>)),
                                   Turn(Undef, Str(<<"bye">>))>>]),
    TBody("object", [RawObject EXCEPT !.bySpeakerIsArray = TRUE,
                       !.bySpeaker = <<Turn(Str(<<"Ann">>), Str(<<>>))>>,
                       !.transcript = Str(<<"flat text">>)]),
    TBody("object", [RawObject EXCEPT !.transcript = Str(<<" ">>)]),
    TBody("object", RawObject),
    TBody("array", [RawObject EXCEPT !.transcript = Str(<<"flat text">>)]),
    TBody("array", NoRaw),
    TBody("null", [NoRaw EXCEPT !.t = "null"]),
    TBody("string", [NoRaw EXCEPT !.t = "string"]),
    TEnvelope(<<"Invalid API KEY.">>),
    [TEnvelope(<<"Limit Reach.">>) EXCEPT !.first.transcript = Str(<<"flat text">>)] }

FmpTranscriptBodies ==
  { TBody("array", [RawObject EXCEPT !.content = Str(<<"full text">>)]),
    TBody("array", [RawObject EXCEPT !.content = Str(<<" ">>)]),
    TBody("array", RawObject),
    TBody("array", NoRaw),
    TBody("object", [RawObject EXCEPT !.content = Str(<<"full text">>)]),
    TBody("null", [NoRaw EXCEPT !.t = "null"]),
    TBody("string", [NoRaw EXCEPT !.t = "string"]),
    TEnvelope(<<"Invalid API KEY.">>),
    [TEnvelope(<<"Limit Reach.">>) EXCEPT !.first.content = Str(<<"full text">>)] }

TranscriptReturn(f, body, text) ==
  [f EXCEPT !.pc = "returned", !.requests = @ + 1, !.outcome = "200 json",
            !.received = body,
            !.transcript = [symbol |-> ToUpperCase(f.symbol),
                            callDate |-> f.callDate, text |-> text,
                            raw |-> body.first]]

TranscriptBodyThrow(f, body, e) ==
  [TranscriptThrow(f, "200 json", e) EXCEPT !.received = body]

(* NinjasTranscriptProvider.fetchTranscript after a 2xx JSON body: lines
   145-153, with extractNinjasText (162-192), whose not-found error carries
   the period text where the others carry callDate *)
NinjasOk ==
  /\ op = "ninjas"
  /\ tr.pc = "request"
  /\ \E body \in NinjasBodies :
       LET raw == body.first
       IN  tr' = IF raw.t # "object"
                 THEN TranscriptBodyThrow(tr, body,
                        TranscriptNotFoundError(tr.symbol, tr.callDate, "API Ninjas"))
                 ELSE IF extractNinjasText(raw) = <<>>
                 THEN TranscriptBodyThrow(tr, body,
                        TranscriptNotFoundError(tr.symbol,
                          PeriodText(tr.year, tr.quarter), "API Ninjas"))
                 ELSE TranscriptReturn(tr, body, extractNinjasText(raw))
  /\ UNCHANGED <<op, run, rw, prev, flt, apiKey, fromDate, toDate, fj, cal, bld, file, now, logs>>

FmpEnvelopeIgnored(body) == FALSE

(* isFmpErrorEnvelope(body) *)
isFmpErrorEnvelope(body) ==
  /\ body.type # "null"
  /\ body.type \in {"object", "array"}
  /\ body.type # "array"
  /\ body.errKey

(* FmpTranscriptProvider.fetchTranscript after a 2xx JSON body: lines 261-280 *)
FmpOk ==
  /\ op = "fmpTranscript"
  /\ tr.pc = "request"
  /\ \E body \in FmpTranscriptBodies :
       LET raw == body.first
       IN  tr' = IF isFmpErrorEnvelope(body)
                 THEN TranscriptBodyThrow(tr, body,
                        PlainError(<<"[", "FMP", "] API error: ">> \o body.errMsg))
                 ELSE IF raw.t # "object"
                 THEN TranscriptBodyThrow(tr, body,
                        TranscriptNotFoundError(tr.symbol, tr.callDate, "FMP"))
                 ELSE IF FmpText(raw) = <<>>
                 THEN TranscriptBodyThrow(tr, body,
                        TranscriptNotFoundError(tr.symbol, tr.callDate, "FMP"))
                 ELSE TranscriptReturn(tr, body, FmpText(raw))
  /\ UNCHANGED <<op, run, rw, prev, flt, apiKey, fromDate, toDate, fj, cal, bld, file, now, logs>>

(***************************************************************************)
(* filterNyseNasdaq(events, symbolToExchange, { keepUnknown })             *)
(***************************************************************************)
(* symbolToExchange.get(sym): undefined when the map has no such key *)
MapGet(m, k) ==
  IF MapHas(m, k)
  THEN m[CHOOSE i \in 1..Len(m) : m[i].symbol = k].exchange
  ELSE Undef

VerdictKeepUnknownKeepsAll(ev, m, keepUnknown) ==
  LET exch == MapGet(m, Str(ToUpperCase(ev.symbol)))
  IN  IF exch.t = "string" /\ exch.s \in NYSE_NASDAQ THEN "keptNyseNasdaq"
      ELSE IF keepUnknown THEN "keptUnknown"
      ELSE "dropped"

VerdictUppercasesExchange(ev, m, keepUnknown) ==
  LET exch == MapGet(m, Str(ToUpperCase(ev.symbol)))
  IN  IF exch.t = "undefined"
      THEN (IF keepUnknown THEN "keptUnknown" ELSE "dropped")
      ELSE IF exch.t = "string" /\ ToUpperCase(exch.s) \in NYSE_NASDAQ
      THEN "keptNyseNasdaq"
      ELSE "dropped"

(* the callback of events.filter, lines 438-450: the counter it increments *)
FilterVerdict(ev, m, keepUnknown) ==
  LET sym  == ToUpperCase(ev.symbol)
      exch == MapGet(m, Str(sym))
  IN  IF exch.t = "undefined"
      THEN (IF keepUnknown THEN "keptUnknown" ELSE "dropped")
      ELSE IF exch.t = "string" /\ exch.s \in NYSE_NASDAQ
      THEN "keptNyseNasdaq"
      ELSE "dropped"

CountVerdict(events, m, keepUnknown, verdict) ==
  Cardinality({i \in 1..Len(events) :
                 FilterVerdict(events[i], m, keepUnknown) = verdict})

(* the line of lines 452-457 *)
FilterLog(keptNyseNasdaq, keptUnknown, dropped, total, keepUnknown) ==
  <<"[FMP] Filter: ">> \o NumText(keptNyseNasdaq) \o <<" NYSE/NASDAQ">>
    \o (IF keepUnknown
        THEN <<", ">> \o NumText(keptUnknown) \o <<" unknown (kept)">>
        ELSE <<>>)
    \o <<", ">> \o NumText(dropped) \o <<" dropped">>
    \o <<" (of ">> \o NumText(total) \o <<" total events).">>

Reverse(s) == [i \in 1..Len(s) |-> s[Len(s) + 1 - i]]

FilterNewestFirst(events, m, keepUnknown) ==
  [result |-> Reverse(SelectSeq(events,
                 LAMBDA ev : FilterVerdict(ev, m, keepUnknown) # "dropped")),
   keptNyseNasdaq |-> CountVerdict(events, m, keepUnknown, "keptNyseNasdaq"),
   keptUnknown |-> CountVerdict(events, m, keepUnknown, "keptUnknown"),
   dropped |-> CountVerdict(events, m, keepUnknown, "dropped"),
   eventsAfter |-> events,
   mapAfter |-> m]

FilterInPlace(events, m, keepUnknown) ==
  [result |-> SelectSeq(events,
                LAMBDA ev : FilterVerdict(ev, m, keepUnknown) # "dropped"),
   keptNyseNasdaq |-> CountVerdict(events, m, keepUnknown, "keptNyseNasdaq"),
   keptUnknown |-> CountVerdict(events, m, keepUnknown, "keptUnknown"),
   dropped |-> CountVerdict(events, m, keepUnknown, "dropped"),
   eventsAfter |-> SelectSeq(events,
                     LAMBDA ev : FilterVerdict(ev, m, keepUnknown) # "dropped"),
   mapAfter |-> m]

CountsAllAsDropped(events, m, keepUnknown) ==
  [result |-> SelectSeq(events,
                LAMBDA ev : FilterVerdict(ev, m, keepUnknown) # "dropped"),
   keptNyseNasdaq |-> CountVerdict(events, m, keepUnknown, "keptNyseNasdaq"),
   keptUnknown |-> CountVerdict(events, m, keepUnknown, "keptUnknown"),
   dropped |-> Len(events) - CountVerdict(events, m, keepUnknown, "keptNyseNasdaq"),
   eventsAfter |-> events,
   mapAfter |-> m]

(* filterNyseNasdaq(events, m, { keepUnknown }): what it returns, the three
   counters, and the two arguments as they are after the call; events.filter
   builds a new array of the same event objects, and the map is only read *)
filterNyseNasdaq(events, m, keepUnknown) ==
  [result |-> SelectSeq(events,
                LAMBDA ev : FilterVerdict(ev, m, keepUnknown) # "dropped"),
   keptNyseNasdaq |-> CountVerdict(events, m, keepUnknown, "keptNyseNasdaq"),
   keptUnknown |-> CountVerdict(events, m, keepUnknown, "keptUnknown"),
   dropped |-> CountVerdict(events, m, keepUnknown, "dropped"),
   eventsAfter |-> events,
   mapAfter |-> m]

(* flt: the map and the event list a caller holds, and the calls of the
   filter it has made, each with its arguments as they were before the call
   and after it, and what it returned *)
MaxFilterCalls == 2

FilterIdle(events, m) == [events |-> events, map |-> m, calls |-> <<>>]

(* one call of filterNyseNasdaq with flt.map: the first on the list the
   caller holds, a later one on the list the call before returned *)
FilterCall ==
  /\ op = "filter"
  /\ Len(flt.calls) < MaxFilterCalls
  /\ \E keepUnknown \in BOOLEAN :
       LET arg == IF flt.calls = <<>> THEN flt.events
                  ELSE flt.calls[Len(flt.calls)].result
           out == filterNyseNasdaq(arg, flt.map, keepUnknown)
       IN  /\ flt' = [flt EXCEPT
                        !.calls = Append(@, [events |-> arg, map |-> flt.map,
                                             keepUnknown |-> keepUnknown]
                                              @@ out),
                        !.events = IF flt.calls = <<>> THEN out.eventsAfter
                                   ELSE @,
                        !.map = out.mapAfter]
           /\ logs' = logs \cup
                        {FilterLog(out.keptNyseNasdaq, out.keptUnknown,
                                   out.dropped, Len(arg), keepUnknown)}
  /\ UNCHANGED <<op, run, rw, prev, apiKey, fromDate, toDate, fj, cal, bld, file, now, tr>>

(***************************************************************************)
(* Inputs and initial state.  Every element of a list-shaped response is   *)
(* an object (a record).                                                   *)
(***************************************************************************)
KeyChars == {"K", "&", " "}

(* keys up to MaxKeyLen characters for the calendar, whose URL has three
   parameters; the stock-list URL has the key alone *)
ApiKeys(o) == SeqsUpTo(KeyChars, IF o = "calendar" THEN MaxKeyLen ELSE 1)

Symbols == {<<"a">>, <<"B">>}

CallDate(y, m, d) == y \o <<"-">> \o m \o <<"-">> \o d

CallDates ==
  { CallDate(<<"2", "0", "2", "6">>, m, <<"2", "5">>) :
      m \in {<<"0", "1">>, <<"0", "2">>, <<"0", "3">>, <<"0", "4">>, <<"0", "5">>,
             <<"0", "6">>, <<"0", "7">>, <<"0", "8">>, <<"0", "9">>, <<"1", "0">>,
             <<"1", "1">>, <<"1", "2">>} }
  \cup {<<"2", "0", "2", "6">>, <<"soon">>, <<"2", "0", "2", "6", "-", "x">>}

FromDates == {<<"2026-02-24">>, <<"apikey", "=", "x">>}

GoodEntries == <<Entry(Str(<<"A">>), Str(<<"NASDAQ">>)), Entry(Str(<<"B">>), Str(<<"AMEX">>))>>

CacheAges == {Hour, CACHE_TTL_MS - 1, CACHE_TTL_MS, CACHE_TTL_MS + 1, 8 * Day}

CacheFiles ==
  { AbsentFile,
    [state |-> "unreadable", text |-> GarbageText],
    PresentFile(GarbageText),
    PresentFile(JsonStringify(CacheNonObject("null"))),
    PresentFile(JsonStringify(CacheNonObject("number"))),
    PresentFile(JsonStringify(
      CacheObject(Str(<<"2026-02-24">>), TRUE, GoodEntries))),
    PresentFile(JsonStringify(
      CacheObject(Num(StartTime - Hour), FALSE, <<>>))),
    PresentFile(JsonStringify(
      CacheObject(Num(StartTime - Hour), TRUE, <<NullEntry>>))),
    PresentFile(JsonStringify(
      CacheObject(Num(StartTime - Hour), TRUE, <<Entry(Undef, Num(1))>>))),
    PresentFile(JsonStringify(
      CacheObject(Num(StartTime - Hour), TRUE, <<>>))),
    PresentFile(JsonStringify(
      CacheObject(Num(StartTime - Hour), TRUE,
                  <<Entry(Str(<<"a">>), Str(<<"nasdaq">>))>>))) }
  \cup
  { PresentFile(JsonStringify(CacheObject(Num(StartTime - age), TRUE, GoodEntries))) :
      age \in CacheAges }

MaxEvents == 3

CalendarRecord(sym, date) ==
  [NoFields EXCEPT !.symbol = Str(sym), !.date = Str(date)]

FilterEvents ==
  { EarningsEvent(CalendarRecord(<<"a">>, <<"2026-02-25">>)),
    EarningsEvent(CalendarRecord(<<"A">>, <<"2026-02-26">>)),
    EarningsEvent(CalendarRecord(<<"B">>, <<"2026-02-25">>)),
    EarningsEvent(CalendarRecord(<<"c">>, <<"2026-02-25">>)) }

MapEntry(sym, exch) == [symbol |-> Str(sym), exchange |-> Str(exch)]

(* the window of the documented filter summary: 359 events of which 42 are
   listed on NYSE or NASDAQ; the others are listed elsewhere or are not in
   the map *)
WindowEvents == 359

WindowTargets == 42

WindowList ==
  [i \in 1..WindowEvents |->
     IF i % 8 = 0 /\ i <= 8 * WindowTargets
     THEN EarningsEvent(CalendarRecord(<<"B">>, <<"2026-02-25">>))
     ELSE IF i % 2 = 0
     THEN EarningsEvent(CalendarRecord(<<"a">>, <<"2026-02-25">>))
     ELSE EarningsEvent(CalendarRecord(<<"c">>, <<"2026-02-25">>))]

WindowMap == <<MapEntry(<<"A">>, <<"AMEX">>), MapEntry(<<"B">>, <<"NYSE">>)>>

FilterMaps ==
  { <<>>,
    <<MapEntry(<<"A">>, <<"NASDAQ">>), MapEntry(<<"B">>, <<"NYSE">>)>>,
    <<MapEntry(<<"A">>, <<"AMEX">>), MapEntry(<<"B">>, <<"nasdaq">>)>>,
    <<MapEntry(<<"a">>, <<"NYSE">>), MapEntry(<<"B">>, <<"NASDAQ">>),
      MapEntry(<<"C">>, <<"AMEX">>)>> }

(* no process is reading or writing the cache file: the state of rw in the
   specifications of one process *)
NoRace ==
  [exists |-> FALSE, disk |-> <<>>, before |-> <<>>,
   w |-> [pc |-> "none", map |-> <<>>, text |-> <<>>, written |-> 0],
   r |-> <<>>]

(* main() of run.ts, not started: the state of run in the other
   specifications *)
Env(fmp, ninjas) == [FMP_API_KEY |-> fmp, NINJAS_API_KEY |-> ninjas]

NoRun ==
  [pc |-> "none", env |-> Env(<<>>, <<>>), argsOk |-> FALSE,
   calTask |-> "idle", mapTask |-> "idle", trace |-> <<>>,
   rawEvents |-> <<>>, map |-> <<>>, mapSource |-> "none", filterRuns |-> 0,
   returned |-> FALSE,
   events |-> <<>>, calls |-> <<>>, fetched |-> 0, skipped |-> 0,
   errored |-> 0, exitCode |-> 0]

Init ==
  /\ op \in {"calendar", "build", "filter"} \cup ProviderOps
  /\ apiKey \in (IF op = "filter" THEN {<<>>} ELSE ApiKeys(op))
  /\ fromDate \in (IF op = "calendar" THEN FromDates ELSE {<<>>})
  /\ toDate = (IF op = "calendar" THEN <<"2026-02-28">> ELSE <<>>)
  /\ file \in (IF op = "build" THEN CacheFiles ELSE {AbsentFile})
  /\ now = StartTime
  /\ fj = IdleFrame
  /\ cal = CalendarIdle
  /\ bld = BuildIdle
  /\ tr \in (IF op \in ProviderOps
             THEN {TranscriptFrame(sym, d) : sym \in Symbols, d \in CallDates}
             ELSE {TranscriptFrame(<<>>, <<>>)})
  /\ logs = {}
  /\ prev = FirstRun
  /\ run = NoRun
  /\ rw = NoRace
  /\ flt \in (IF op = "filter"
              THEN {FilterIdle(events, m) :
                      events \in SeqsUpTo(FilterEvents, MaxEvents),
                      m \in FilterMaps}
                   \cup {FilterIdle(WindowList, WindowMap)}
              ELSE {FilterIdle(<<>>, <<>>)})

Next ==
  \/ CalendarStart
  \/ CalendarFetchThrows
  \/ CalendarFinish
  \/ BuildStart
  \/ BuildFetchThrows
  \/ BuildFinish
  \/ FilterCall
  \/ FetchNetworkError
  \/ FetchRateLimited
  \/ FetchHttpError
  \/ FetchNonJson
  \/ FetchOk
  \/ SleepDone
  \/ ProviderConstruct
  \/ TranscriptStart
  \/ TranscriptNetworkError
  \/ TranscriptHttpError
  \/ TranscriptNonJson
  \/ NinjasOk
  \/ FmpOk

Spec == Init /\ [][Next]_vars

(* Successive runs of a process that builds the symbol-exchange map *)
RunsInit == Init /\ op = "build"

RunsNext ==
  \/ BuildStart
  \/ BuildFetchThrows
  \/ BuildFinish
  \/ NextRun
  \/ FetchNetworkError
  \/ FetchRateLimited
  \/ FetchHttpError
  \/ FetchNonJson
  \/ FetchOk
  \/ SleepDone

RunsSpec == RunsInit /\ [][RunsNext]_vars

(* The calls of fetchJson, under the assumption that every HTTP request and
   every sleep completes: the await of fetch(url) and the await of
   sleep(...) are the only places where the function waits *)
FetchInit == Init /\ op \in {"calendar", "build"}

FetchStep ==
  \/ FetchNetworkError
  \/ FetchRateLimited
  \/ FetchHttpError
  \/ FetchNonJson
  \/ FetchOk

FetchNext ==
  \/ CalendarStart
  \/ CalendarFetchThrows
  \/ CalendarFinish
  \/ BuildStart
  \/ BuildFetchThrows
  \/ BuildFinish
  \/ FetchStep
  \/ SleepDone

FetchSpec ==
  FetchInit /\ [][FetchNext]_vars /\ WF_vars(FetchStep) /\ WF_vars(SleepDone)

(***************************************************************************)
(* run.ts: main(), with fetchUsEarningsCalendar (fmp-earnings.ts lines     *)
(* 481-497) which it awaits.  The two calls that fetchUsEarningsCalendar   *)
(* hands to Promise.all are the calls modelled above; here each is a task  *)
(* seen at its await points, and each fetchTranscript call of the loop is  *)
(* seen by the class of its outcome.  run.pc is the position in main:      *)
(*   start     not started                                                 *)
(*   acquire   awaiting fetchUsEarningsCalendar (line 116)                 *)
(*   loop      at the head of the for loop (line 136)                      *)
(*   awaiting  awaiting provider.fetchTranscript (line 140)                *)
(*   summary   the summary is printed, main returned                       *)
(*   empty     main returned at line 122, no event in the window           *)
(*   fatal     main threw; the top-level handler exits with code 1         *)
(* trace lists the starts and the ends of the two tasks in the order in    *)
(* which they happened; calls lists the fetchTranscript calls in the order *)
(* in which they were started.                                             *)
(***************************************************************************)
MaxBatch == 3

(* requireEnv(name): the trimmed value; it throws when that is empty *)
requireEnv(env, name) == Trim(env[name])

MainIdle(env, argsOk) ==
  [NoRun EXCEPT !.pc = "start", !.env = env, !.argsOk = argsOk]

(* lines 102-116 of main and lines 490-493 of fetchUsEarningsCalendar: both
   calls are made, each runs to its first await, and Promise.all is awaited *)
MainStart ==
  /\ op = "main"
  /\ run.pc = "start"
  /\ run' = IF \/ ~run.argsOk
               \/ requireEnv(run.env, "FMP_API_KEY") = <<>>
               \/ requireEnv(run.env, "NINJAS_API_KEY") = <<>>
            THEN [run EXCEPT !.pc = "fatal", !.exitCode = 1]
            ELSE [run EXCEPT !.pc = "acquire", !.calTask = "fetching",
                            !.mapTask = "loading",
                            !.trace = <<"calendar started", "map started">>]
  /\ UNCHANGED <<callVars, rw>>

(* both tasks are alive: a rejection of either ends the process before the
   other can take a step (PipelineReject) *)
TasksRunning ==
  /\ op = "main"
  /\ run.pc = "acquire"
  /\ run.calTask # "thrown"
  /\ run.mapTask # "thrown"

(* fetchFmpEarningsCalendar returns its events *)
CalendarTaskReturns ==
  /\ TasksRunning
  /\ run.calTask = "fetching"
  /\ \E events \in SeqsUpTo(FilterEvents, MaxBatch) :
       run' = [run EXCEPT !.calTask = "returned", !.rawEvents = events,
                          !.trace = Append(@, "calendar returned")]
  /\ UNCHANGED <<callVars, rw>>

(* fetchFmpEarningsCalendar throws *)
CalendarTaskThrows ==
  /\ TasksRunning
  /\ run.calTask = "fetching"
  /\ run' = [run EXCEPT !.calTask = "thrown",
                        !.trace = Append(@, "calendar thrown")]
  /\ UNCHANGED <<callVars, rw>>

(* buildSymbolToExchangeMap: tryLoadCache gives a map, line 295 *)
MapTaskCacheHit ==
  /\ TasksRunning
  /\ run.mapTask = "loading"
  /\ \E m \in FilterMaps :
       run' = [run EXCEPT !.mapTask = "returned", !.map = m,
                          !.mapSource = "cache",
                          !.trace = Append(@, "map returned")]
  /\ UNCHANGED <<callVars, rw>>

(* buildSymbolToExchangeMap: tryLoadCache gives null, fetchJson is awaited *)
MapTaskCacheMiss ==
  /\ TasksRunning
  /\ run.mapTask = "loading"
  /\ run' = [run EXCEPT !.mapTask = "fetching"]
  /\ UNCHANGED <<callVars, rw>>

(* buildSymbolToExchangeMap returns the map it built, which is not empty *)
MapTaskBuilt ==
  /\ TasksRunning
  /\ run.mapTask = "fetching"
  /\ \E m \in FilterMaps \ {<<>>} :
       run' = [run EXCEPT !.mapTask = "returned", !.map = m,
                          !.mapSource = "network",
                          !.trace = Append(@, "map returned")]
  /\ UNCHANGED <<callVars, rw>>

(* buildSymbolToExchangeMap throws: in tryLoadCache or after fetchJson *)
MapTaskThrows ==
  /\ TasksRunning
  /\ run.mapTask \in {"loading", "fetching"}
  /\ run' = [run EXCEPT !.mapTask = "thrown",
                        !.trace = Append(@, "map thrown")]
  /\ UNCHANGED <<callVars, rw>>

(* Promise.all rejects with the first rejection; fetchUsEarningsCalendar and
   main throw, and the handler of lines 183-187 exits *)
PipelineReject ==
  /\ op = "main"
  /\ run.pc = "acquire"
  /\ run.calTask = "thrown" \/ run.mapTask = "thrown"
  /\ run' = [run EXCEPT !.pc = "fatal", !.exitCode = 1]
  /\ UNCHANGED <<callVars, rw>>

PipelineJoinEarly ==
  /\ op = "main"
  /\ run.pc = "acquire"
  /\ run.calTask = "returned"
  /\ LET out == filterNyseNasdaq(run.rawEvents, run.map, FALSE)
     IN  /\ run' = [run EXCEPT !.filterRuns = @ + 1, !.returned = TRUE,
                      !.events = out.result,
                      !.pc = IF out.result = <<>> THEN "empty" ELSE "loop"]
         /\ logs' = logs \cup
                      {FilterLog(out.keptNyseNasdaq, out.keptUnknown,
                                 out.dropped, Len(run.rawEvents), FALSE)}
  /\ UNCHANGED <<op, rw, prev, flt, apiKey, fromDate, toDate, fj, cal, bld, tr, file, now>>

(* Promise.all resolves: lines 495-496 of fetchUsEarningsCalendar, then
   lines 116-133 of main *)
PipelineJoin ==
  /\ op = "main"
  /\ run.pc = "acquire"
  /\ run.calTask = "returned"
  /\ run.mapTask = "returned"
  /\ LET out == filterNyseNasdaq(run.rawEvents, run.map, FALSE)
     IN  /\ run' = [run EXCEPT !.filterRuns = @ + 1, !.returned = TRUE,
                      !.events = out.result,
                      !.pc = IF out.result = <<>> THEN "empty" ELSE "loop"]
         /\ logs' = logs \cup
                      {FilterLog(out.keptNyseNasdaq, out.keptUnknown,
                                 out.dropped, Len(run.rawEvents), FALSE)}
  /\ UNCHANGED <<op, rw, prev, flt, apiKey, fromDate, toDate, fj, cal, bld, tr, file, now>>

Call(ev, state) ==
  [symbol |-> ev.symbol, callDate |-> ev.reportDate, state |-> state]

LoopCallOverlapping ==
  /\ op = "main"
  /\ run.pc \in {"loop", "awaiting"}
  /\ Len(run.calls) < Len(run.events)
  /\ run' = [run EXCEPT !.pc = "awaiting",
               !.calls = Append(@, Call(run.events[Len(run.calls) + 1], "inflight"))]
  /\ UNCHANGED <<callVars, rw>>

(* one iteration up to the await of line 140: the next event of the list *)
LoopCall ==
  /\ op = "main"
  /\ run.pc = "loop"
  /\ Len(run.calls) < Len(run.events)
  /\ run' = [run EXCEPT !.pc = "awaiting",
               !.calls = Append(@, Call(run.events[Len(run.calls) + 1], "inflight"))]
  /\ UNCHANGED <<callVars, rw>>

(* how a fetchTranscript call can end *)
CallOutcomes == {"Transcript", "TranscriptNotFoundError", "Error"}

(* the state of main after the call in flight ended in outcome and its
   counter was incremented; after the last event, lines 162-175 *)
AfterCall(r, outcome, onError) ==
  LET done == [r EXCEPT
                 !.calls[Len(r.calls)].state = outcome,
                 !.fetched = IF outcome = "Transcript" THEN @ + 1 ELSE @,
                 !.skipped = IF outcome = "TranscriptNotFoundError" THEN @ + 1 ELSE @,
                 !.errored = IF outcome = "Error" THEN @ + 1 ELSE @]
  IN  IF outcome = "Error" /\ onError = "abort"
      THEN [done EXCEPT !.pc = "fatal", !.exitCode = 1]
      ELSE IF Len(done.calls) < Len(done.events)
      THEN [done EXCEPT !.pc = "loop"]
      ELSE [done EXCEPT !.pc = "summary",
                        !.exitCode = IF done.errored > 0 THEN 1 ELSE 0]

LoopResultAborts ==
  /\ op = "main"
  /\ run.pc = "awaiting"
  /\ \E outcome \in CallOutcomes : run' = AfterCall(run, outcome, "abort")
  /\ UNCHANGED <<callVars, rw>>

(* the call of line 140 returns or throws: lines 141-157 *)
LoopResult ==
  /\ op = "main"
  /\ run.pc = "awaiting"
  /\ \E outcome \in CallOutcomes : run' = AfterCall(run, outcome, "continue")
  /\ UNCHANGED <<callVars, rw>>

MainEnvs == {Env(f, n) : f \in {<<"K">>, <<" ">>}, n \in {<<"K">>, <<>>}}

MainInit ==
  /\ op = "main"
  /\ run \in {MainIdle(env, argsOk) : env \in MainEnvs, argsOk \in BOOLEAN}
  /\ apiKey = <<>>
  /\ fromDate = <<>>
  /\ toDate = <<>>
  /\ file = AbsentFile
  /\ now = StartTime
  /\ fj = IdleFrame
  /\ cal = CalendarIdle
  /\ bld = BuildIdle
  /\ tr = TranscriptFrame(<<>>, <<>>)
  /\ logs = {}
  /\ prev = FirstRun
  /\ flt = FilterIdle(<<>>, <<>>)
  /\ rw = NoRace

MainNext ==
  \/ MainStart
  \/ CalendarTaskReturns
  \/ CalendarTaskThrows
  \/ MapTaskCacheHit
  \/ MapTaskCacheMiss
  \/ MapTaskBuilt
  \/ MapTaskThrows
  \/ PipelineReject
  \/ PipelineJoin
  \/ LoopCall
  \/ LoopResult

(* every fetchTranscript call that main awaits returns or throws *)
MainSpec ==
  MainInit /\ [][MainNext]_vars /\ WF_vars(LoopCall) /\ WF_vars(LoopResult)

(***************************************************************************)
(* Processes that share the cache file without a lock.  One process is in  *)
(* persistCache (fs.writeFile, line 398) while others are in tryLoadCache  *)
(* (fs.readFile, line 357).  The text of the file is a sequence of tokens: *)
(* the head with builtAt, one token per entry, and the closing token.      *)
(* writeFile opens the file with flag "w", which empties it, then writes   *)
(* the text piece by piece; readFile opens the file and reads it piece by  *)
(* piece up to the size it had when opened, or to the end of the file.     *)
(* Neither is atomic: a reader sees whatever the file holds at the moment  *)
(* of each of its reads.                                                   *)
(***************************************************************************)
(* tokens that one read or write call transfers *)
ChunkTokens == 2

MaxReaders == 2

Readers == 1..MaxReaders

HeadToken(builtAt) == [k |-> "head", builtAt |-> builtAt, entry |-> NullEntry]

EntryToken(e) == [k |-> "entry", builtAt |-> Undef, entry |-> e]

CloseToken == [k |-> "close", builtAt |-> Undef, entry |-> NullEntry]

(* JSON.stringify(payload) as text *)
CacheText(payload) ==
  LET v == JsonStringify(payload).value
  IN  <<HeadToken(v.builtAt)>>
        \o [i \in 1..Len(v.entries) |-> EntryToken(v.entries[i])]
        \o <<CloseToken>>

(* JSON.parse(raw): text that is not one complete object does not parse *)
ParseText(text) ==
  IF /\ Len(text) >= 2
     /\ text[1].k = "head"
     /\ text[Len(text)].k = "close"
     /\ \A i \in 2..(Len(text) - 1) : text[i].k = "entry"
  THEN [json |-> TRUE,
        value |-> CacheObject(text[1].builtAt, TRUE,
                              [i \in 1..(Len(text) - 2) |-> text[i + 1].entry])]
  ELSE GarbageText

WriterIdle(map) == [pc |-> "idle", map |-> map, text |-> <<>>, written |-> 0]

ReaderIdle == [pc |-> "idle", size |-> 0, buf |-> <<>>, result |-> Miss({})]

RaceIdle(exists, text, map) ==
  [exists |-> exists, disk |-> text, before |-> text,
   w |-> WriterIdle(map), r |-> [i \in Readers |-> ReaderIdle]]

(* persistCache up to the opening of the file: the file exists and is empty *)
WriterOpen ==
  /\ op = "race"
  /\ rw.w.pc = "idle"
  /\ rw' = [rw EXCEPT !.exists = TRUE, !.disk = <<>>,
               !.w.pc = "writing",
               !.w.text = CacheText(CachePayload(rw.w.map, now))]
  /\ UNCHANGED <<callVars, run>>

(* one write call of writeFile; after the last one the file is closed *)
WriterWrite ==
  /\ op = "race"
  /\ rw.w.pc = "writing"
  /\ LET upto == IF rw.w.written + ChunkTokens < Len(rw.w.text)
                 THEN rw.w.written + ChunkTokens ELSE Len(rw.w.text)
     IN  rw' = [rw EXCEPT
                  !.disk = @ \o SubSeq(rw.w.text, rw.w.written + 1, upto),
                  !.w.written = upto,
                  !.w.pc = IF upto = Len(rw.w.text) THEN "done" ELSE "writing"]
  /\ UNCHANGED <<callVars, run>>

(* what tryLoadCache makes of the text that readFile returned *)
LoadText(text, t) == tryLoadCache(PresentFile(ParseText(text)), t)

(* tryLoadCache up to the opening of the file; a file that does not exist
   is a miss (line 359) *)
ReaderOpen ==
  /\ op = "race"
  /\ \E i \in Readers :
       /\ rw.r[i].pc = "idle"
       /\ rw' = IF rw.exists
                THEN [rw EXCEPT !.r[i].pc = "reading", !.r[i].size = Len(rw.disk)]
                ELSE [rw EXCEPT !.r[i].pc = "done", !.r[i].result = Miss({})]
  /\ UNCHANGED <<callVars, run>>

(* one read call of readFile at the reader's position; at the end of the
   file, or with the size found at the opening read, lines 362-386 *)
ReaderRead ==
  /\ op = "race"
  /\ \E i \in Readers :
       /\ rw.r[i].pc = "reading"
       /\ LET pos  == Len(rw.r[i].buf)
              upto == IF pos + ChunkTokens < Len(rw.disk)
                      THEN pos + ChunkTokens ELSE Len(rw.disk)
              got  == IF pos < Len(rw.disk) THEN SubSeq(rw.disk, pos + 1, upto)
                      ELSE <<>>
              buf  == rw.r[i].buf \o got
              eof  == got = <<>> \/ (rw.r[i].size > 0 /\ Len(buf) >= rw.r[i].size)
          IN  rw' = IF eof
                    THEN [rw EXCEPT !.r[i].pc = "done", !.r[i].buf = buf,
                                    !.r[i].result = LoadText(buf, now)]
                    ELSE [rw EXCEPT !.r[i].buf = buf]
  /\ UNCHANGED <<callVars, run>>

(* maps built from the stock list at two moments *)
RaceMaps ==
  { <<MapEntry(<<"A">>, <<"NYSE">>), MapEntry(<<"B">>, <<"NYSE">>)>>,
    <<MapEntry(<<"A">>, <<"AMEX">>), MapEntry(<<"B">>, <<"AMEX">>)>>,
    <<MapEntry(<<"A">>, <<"NYSE">>)>> }

(* the file before the write: none, or the text a process that built its
   map an hour ago wrote *)
RaceInit ==
  /\ op = "race"
  /\ rw \in {RaceIdle(FALSE, <<>>, m) : m \in RaceMaps}
         \cup {RaceIdle(TRUE, CacheText(CachePayload(old, StartTime - Hour)), m) :
                 old \in RaceMaps, m \in RaceMaps}
  /\ run = NoRun
  /\ apiKey = <<>>
  /\ fromDate = <<>>
  /\ toDate = <<>>
  /\ file = AbsentFile
  /\ now = StartTime
  /\ fj = IdleFrame
  /\ cal = CalendarIdle
  /\ bld = BuildIdle
  /\ tr = TranscriptFrame(<<>>, <<>>)
  /\ logs = {}
  /\ prev = FirstRun
  /\ flt = FilterIdle(<<>>, <<>>)

RaceNext ==
  \/ WriterOpen
  \/ WriterWrite
  \/ ReaderOpen
  \/ ReaderRead

RaceSpec == RaceInit /\ [][RaceNext]_vars

(***************************************************************************)
(* Properties of fetchJson                                                 *)
(***************************************************************************)
FatalOutcomes == {"404 Not Found", "500 Internal Server Error", "200 non-JSON"}

(* C1: one call of fetchJson issues at most 3 HTTP requests, and when the
   third request too ends in a transport failure or a 429/503 the call has
   thrown an error that carries the attempt count 3 and the redacted URL,
   and has returned no value. *)
C1_AtMostThreeAttempts ==
  /\ fj.requests <= 3
  /\ (fj.requests = 3 /\ fj.outcome \in TransientOutcomes) =>
       /\ fj.pc = "thrown"
       /\ Contains(fj.err, <<"3", " attempts - ">> \o RedactUrl(fj.url))
       /\ fj.body = JsonNone

C1_Witness ==
  /\ fj.pc = "thrown"
  /\ fj.requests = 3
  /\ fj.sleeps = 2
  /\ fj.outcome = "503"

(* C2: a sleep or a further attempt follows only a transport failure or a
   429/503; after any other non-success status or an unparsable 2xx body
   the call has thrown on that same attempt: the requests issued equal the
   attempt number and no sleep was started after it. *)
C2_RetryOnlyTransient ==
  /\ (fj.pc = "sleeping" \/ (fj.pc = "request" /\ fj.attempt > 1)) =>
       fj.outcome \in TransientOutcomes
  /\ fj.outcome \in FatalOutcomes =>
       /\ fj.pc = "thrown"
       /\ fj.requests = fj.attempt
       /\ fj.sleeps = fj.attempt - 1
       /\ fj.wait = NoWait

C2_Witness ==
  /\ fj.pc = "thrown"
  /\ fj.attempt = 2
  /\ fj.requests = 2
  /\ fj.outcome = "500 Internal Server Error"

(* C4: after a 2xx response with a JSON body, fetchJson has thrown on that
   attempt with the body's message in the error when the body is a non-array
   object with the key "Error Message", and has returned the body unchanged
   otherwise. *)
C4_ErrorEnvelope ==
  fj.outcome = "200 json" =>
    IF fj.received.type = "object" /\ fj.received.errKey
    THEN /\ fj.pc = "thrown"
         /\ Contains(fj.err, fj.received.errMsg)
         /\ fj.body = JsonNone
         /\ fj.requests = fj.attempt
         /\ fj.wait = NoWait
    ELSE /\ fj.pc = "returned"
         /\ fj.body = fj.received

C4_Witness ==
  /\ fj.pc = "thrown"
  /\ fj.outcome = "200 json"
  /\ fj.received = JsonEnvelope(<<"Invalid API KEY.">>)
  /\ fj.attempt = 2

(* C5: when a 429/503 that is retried carries a Retry-After header, the wait
   is the delay the header denotes, in milliseconds, and not the computed
   backoff. *)
C5_RetryAfterWait ==
  (fj.pc = "sleeping" /\ fj.wait.header.present /\ fj.wait.header.text # <<>>) =>
     /\ fj.wait.kind = "retryAfter"
     /\ ~fj.wait.nan
     /\ fj.wait.ms = fj.wait.header.secs * 1000

(* C6: the computed backoff is 500 ms at the first sleep and 1000 ms at the
   second, whatever preceded, and a wait computed from it lies in [400, 600]
   and then in [800, 1200]. *)
C6_Backoff ==
  fj.pc = "sleeping" =>
    /\ fj.sleeps \in {1, 2}
    /\ fj.wait.base = (IF fj.sleeps = 1 THEN 500 ELSE 1000)
    /\ fj.wait.kind = "backoff" =>
         /\ fj.sleeps = 1 => (400 <= fj.wait.ms /\ fj.wait.ms <= 600)
         /\ fj.sleeps = 2 => (800 <= fj.wait.ms /\ fj.wait.ms <= 1200)

C6_Witness ==
  /\ fj.pc = "sleeping"
  /\ fj.sleeps = 2
  /\ fj.wait.kind = "backoff"
  /\ fj.prevWait = "retryAfter"
  /\ fj.outcome = "neterr"

(***************************************************************************)
(* Credentials in messages.  "K" stands for the secret characters of an    *)
(* API key: no other text of the model contains it.                        *)
(***************************************************************************)
PropagatedErrors == {fj.err, cal.err, bld.err, tr.err.msg}

HoldsKey(msg) == "K" \in Range(msg)

(* C3: no error message of fetchJson, of its two callers or of a transcript
   provider, and no log line, contains the API key, and every message
   fetchJson throws shows the URL with apikey=REDACTED. *)
C3_KeyRedacted ==
  /\ \A msg \in PropagatedErrors \cup logs : ~HoldsKey(msg)
  /\ fj.pc = "thrown" => Contains(fj.err, <<"apikey", "=", "REDACTED">>)

C3_Witness ==
  /\ cal.pc = "thrown"
  /\ fj.outcome = "404 Not Found"
  /\ apiKey = <<"K", "&">>
  /\ fromDate = <<"apikey", "=", "x">>
  /\ HoldsKey(fj.url)

(***************************************************************************)
(* Properties of the reference cache and of buildSymbolToExchangeMap       *)
(***************************************************************************)
Loaded == bld.pc # "start" /\ ~ApiKeyMissing(apiKey)

(* the file tryLoadCache found parses to an object with a numeric builtAt and
   an entries array of {symbol, exchange} string pairs *)
StructurallyValid(f) ==
  /\ f.state = "present"
  /\ f.text.json
  /\ f.text.value.type = "object"
  /\ f.text.value.builtAt.t = "number"
  /\ f.text.value.entriesIsArray
  /\ \A i \in 1..Len(f.text.value.entries) :
       /\ f.text.value.entries[i].type = "object"
       /\ f.text.value.entries[i].symbol.t = "string"
       /\ f.text.value.entries[i].exchange.t = "string"

SeenAge == bld.loadedAt - bld.seen.text.value.builtAt.n

ServedFromCache ==
  /\ bld.pc = "returned"
  /\ bld.source = "cache"
  /\ fj.pc = "idle"
  /\ fj.requests = 0

(* C7: whatever the cache file holds, loading it never fails the build: a
   build with a valid key throws only after it has gone to the network. *)
C7_CacheLoadNeverThrows ==
  (Loaded /\ bld.pc = "thrown") => fj.pc # "idle"

(* C8: when the cache file is structurally valid and younger than the TTL,
   the build returns the map of the file's entries and issues no HTTP
   request. *)
C8_FreshCacheNoRequest ==
  (Loaded /\ StructurallyValid(bld.seen) /\ SeenAge < CACHE_TTL_MS) =>
     /\ ServedFromCache
     /\ bld.map = MapFromPairs(bld.seen.text.value.entries)
     /\ file = bld.seen

C8_Witness ==
  /\ Loaded
  /\ StructurallyValid(bld.seen)
  /\ SeenAge = Hour
  /\ ServedFromCache
  /\ Len(bld.map) = 2

(* C9: a valid cache file younger than 7 days is served without a request,
   and one whose age is 7 days or more is treated as stale and rebuilt from
   the API. *)
C9_StaleFromSevenDays ==
  (Loaded /\ StructurallyValid(bld.seen)) =>
     /\ SeenAge < CACHE_TTL_MS => ServedFromCache
     /\ SeenAge >= CACHE_TTL_MS => (bld.source # "cache" /\ fj.pc # "idle")

(* C10: a build that returns a map built from the network has attempted to
   write the cache before returning: the payload holds the entries of the
   returned map and the time of the write as builtAt, and a write that
   succeeded left exactly that payload in the file. *)
C10_WriteBeforeReturn ==
  (bld.pc = "returned" /\ bld.source = "network") =>
     /\ bld.write \in WriteOutcomes
     /\ bld.written.builtAt = Num(bld.writtenAt)
     /\ bld.writtenAt = now
     /\ bld.writtenAt >= bld.loadedAt
     /\ bld.written.entriesIsArray
     /\ bld.written.entries =
          [i \in 1..Len(bld.map) |-> Entry(bld.map[i].symbol, bld.map[i].exchange)]
     /\ bld.write = "ok" =>
          /\ file = PresentFile(JsonStringify(bld.written))
          /\ file # bld.seen

C10_Witness ==
  /\ bld.pc = "returned"
  /\ bld.source = "network"
  /\ bld.write = "ok"
  /\ StructurallyValid(bld.seen)
  /\ SeenAge = 8 * Day
  /\ fj.sleeps = 1
  /\ file.text.value.builtAt.n > StartTime
  /\ Len(bld.map) = 2

(***************************************************************************)
(* Properties of persistCache and of the map the build returns             *)
(***************************************************************************)
WriteFailed(w) == w \in {"failed", "failedTruncated"}

(* C11: a failed write of the cache file does not fail the build: the build
   has returned the map it built from the response and has logged the
   failure; and after a run whose write failed, the build of the next run
   finds no fresh cache and goes to the network. *)
C11_WriteFailureNotFatal ==
  /\ WriteFailed(bld.write) =>
       /\ bld.pc = "returned"
       /\ bld.source = "network"
       /\ bld.map = BuildMap(fj.body.items)
       /\ Len(bld.map) >= 1
       /\ WriteWarning \in logs
  /\ (Loaded /\ prev.pc = "returned" /\ prev.source = "network"
        /\ WriteFailed(prev.write)) =>
       /\ bld.source # "cache"
       /\ fj.pc # "idle"
       /\ bld.pc = "returned" => bld.source = "network"

C11_Witness ==
  /\ prev.pc = "returned"
  /\ prev.source = "network"
  /\ prev.write = "failedTruncated"
  /\ bld.pc = "returned"
  /\ bld.source = "network"
  /\ bld.write = "failed"
  /\ bld.seen = PresentFile(GarbageText)

(* C12: every map a build returns, from the cache or from the network, has
   at least one entry. *)
C12_ReturnedMapNonEmpty ==
  bld.pc = "returned" => Len(bld.map) >= 1

(* the record yields no pair: its symbol or its exchange code is empty once
   converted to text, uppercased and trimmed *)
NoPair(item) ==
  UpperText(item.symbol) = <<>> \/ UpperText(ExchangeRaw(item)) = <<>>

BuildErrorTexts ==
  [notList     |-> <<"[FMP] stock-list: expected JSON array, got: ">>,
   emptyList   |-> <<"[FMP] stock-list: response was an empty array - ">>,
   zeroEntries |-> <<"[FMP] stock-list: parsed 0 valid symbol-exchange pairs. ">>]

(* which of the three texts the message carries *)
BuildErrorKinds(err) ==
  {k \in DOMAIN BuildErrorTexts : Contains(err, BuildErrorTexts[k])}

BuildFinished == op = "build" /\ fj.pc = "returned" /\ bld.pc # "fetching"

(* C13: when the cache missed and fetchJson returned a body, a body that is
   not a list, an empty list, and a non-empty list none of whose records
   yields a pair each make the build throw, nothing being written, and each
   with a message that carries its own text and neither of the other two. *)
C13_ThreeDistinctFailures ==
  BuildFinished =>
    LET body  == fj.body
        kinds == BuildErrorKinds(bld.err)
        threw == bld.pc = "thrown" /\ bld.write = "none" /\ file = bld.seen
    IN  /\ body.type # "array" => (threw /\ kinds = {"notList"})
        /\ (body.type = "array" /\ Len(body.items) = 0) =>
             (threw /\ kinds = {"emptyList"})
        /\ (body.type = "array" /\ Len(body.items) > 0
              /\ \A i \in 1..Len(body.items) : NoPair(body.items[i])) =>
             (threw /\ kinds = {"zeroEntries"})

C13_Witness ==
  /\ BuildFinished
  /\ fj.body.type = "array"
  /\ Len(fj.body.items) = 2
  /\ fj.body.items[1] # fj.body.items[2]
  /\ bld.pc = "thrown"
  /\ BuildErrorKinds(bld.err) = {"zeroEntries"}

ExchangeFields(item) ==
  <<item.exchangeShortName, item.exchange_short_name, item.exchange>>

(* the value of the first of the three fields, in priority order, that is
   present with a non-empty value; empty when there is none *)
FirstNonEmptyExchange(item) ==
  LET f  == ExchangeFields(item)
      ok == {i \in 1..3 : f[i].t \notin {"undefined", "null"}
                            /\ String(f[i]) # <<>>}
  IN  IF ok = {} THEN <<>>
      ELSE String(f[CHOOSE i \in ok : \A j \in ok : i <= j])

(* C14: for every record of the fetched list, the exchange code under which
   the build enters its symbol is the uppercased value of the first of
   exchangeShortName, exchange_short_name, exchange that is present and
   non-empty, a present but empty field of higher priority notwithstanding
   (the record being the last one of its symbol). *)
C14_FirstNonEmptyFieldWins ==
  (BuildFinished /\ fj.body.type = "array") =>
     \A i \in 1..Len(fj.body.items) :
        LET item == fj.body.items[i]
            sym  == UpperText(item.symbol)
            want == Trim(ToUpperCase(FirstNonEmptyExchange(item)))
        IN  (/\ sym # <<>>
             /\ want # <<>>
             /\ \A j \in (i + 1)..Len(fj.body.items) :
                   UpperText(fj.body.items[j].symbol) # sym) =>
              /\ bld.pc = "returned"
              /\ MapGet(bld.map, Str(sym)) = Str(want)

IsUpperText(v) == v.t = "string" /\ ToUpperCase(v.s) = v.s

(* C15: every key and every value of a map a build returns, in any run, is
   an uppercase string. *)
C15_MapUppercase ==
  bld.pc = "returned" =>
    \A i \in 1..Len(bld.map) :
       IsUpperText(bld.map[i].symbol) /\ IsUpperText(bld.map[i].exchange)

(* the last record of the list that yields a pair for the symbol of record i *)
LastOfSymbol(items, i) ==
  CHOOSE j \in i..Len(items) :
    /\ ~NoPair(items[j])
    /\ UpperText(items[j].symbol) = UpperText(items[i].symbol)
    /\ \A k \in (j + 1)..Len(items) :
          NoPair(items[k]) \/ UpperText(items[k].symbol) # UpperText(items[i].symbol)

(* C16: when the fetched list holds at least one record with a non-empty
   symbol and exchange code, the build has returned, whatever other records
   the list holds, and the map holds one entry per symbol of those records
   and no other entry, each symbol with the exchange code of the last such
   record that names it. *)
C16_PartialRecordsSkipped ==
  (/\ BuildFinished
   /\ fj.body.type = "array"
   /\ \E i \in 1..Len(fj.body.items) : ~NoPair(fj.body.items[i])) =>
     LET items == fj.body.items
     IN  /\ bld.pc = "returned"
         /\ bld.source = "network"
         /\ \A k, l \in 1..Len(bld.map) :
               bld.map[k].symbol = bld.map[l].symbol => k = l
         /\ \A k \in 1..Len(bld.map) :
               \E i \in 1..Len(items) :
                  /\ ~NoPair(items[i])
                  /\ bld.map[k].symbol = Str(UpperText(items[i].symbol))
         /\ \A i \in 1..Len(items) :
               ~NoPair(items[i]) =>
                  MapGet(bld.map, Str(UpperText(items[i].symbol))) =
                    Str(UpperText(ExchangeRaw(items[LastOfSymbol(items, i)])))

C16_Witness ==
  /\ BuildFinished
  /\ fj.body.type = "array"
  /\ Len(fj.body.items) = 2
  /\ NoPair(fj.body.items[1])
  /\ fj.body.items[1].symbol = Undef
  /\ ~NoPair(fj.body.items[2])
  /\ bld.pc = "returned"
  /\ Len(bld.map) = 1

(***************************************************************************)
(* Properties of fetchFmpEarningsCalendar                                  *)
(***************************************************************************)
(* the field is missing, null, empty or white space only *)
Blank(v) == v.t \in {"undefined", "null"} \/ Trim(String(v)) = <<>>

CalendarReturned == op = "calendar" /\ cal.pc = "returned"

(* C17: every event fetchFmpEarningsCalendar returns has a symbol and a
   reportDate that are not empty and not white space only, and the events
   are, in order, those of the records of the response whose symbol and
   date are both not blank: a record with a blank symbol or date gives no
   event and is reported by a warning. *)
C17_EventsHaveSymbolAndDate ==
  CalendarReturned =>
    LET items == fj.body.items
        good  == {i \in 1..Len(items) :
                    ~Blank(items[i].symbol) /\ ~Blank(items[i].date)}
    IN  /\ \A k \in 1..Len(cal.events) :
              /\ Trim(cal.events[k].symbol) # <<>>
              /\ Trim(cal.events[k].reportDate) # <<>>
              /\ \E i \in good :
                    /\ cal.events[k].raw = items[i]
                    /\ Cardinality({j \in good : j <= i}) = k
        /\ Len(cal.events) = Cardinality(good)
        /\ good # 1..Len(items) => SkipWarning \in logs

C17_Witness ==
  /\ CalendarReturned
  /\ Len(fj.body.items) = 2
  /\ fj.body.items[1].symbol = Str(<<" ">>)
  /\ Len(cal.events) = 1
  /\ cal.events[1].symbol = <<"B">>

NumericFields == {"epsActual", "epsEstimated", "revenueActual", "revenueEstimated"}

(* the input is absent, null or the empty string *)
EmptyInput(v) == v.t \in {"undefined", "null"} \/ v = Str(<<>>)

(* the input is a text that does not spell a number *)
NonNumericInput(v) ==
  v.t = "string" /\ Trim(v.s) # <<>> /\ ~(Range(Trim(v.s)) \subseteq Digits)

NonFiniteInput(v) == v.t = "number" /\ ~v.fin

(* C18: each of the four numeric fields of every returned event is a finite
   number or null, and it is null when the field of the record is empty
   (absent, null or the empty string), not numeric, or not finite. *)
C18_FiniteOrNull ==
  CalendarReturned =>
    \A k \in 1..Len(cal.events) : \A f \in NumericFields :
       LET out == cal.events[k][f]
           in  == cal.events[k].raw[f]
       IN  /\ out = Null \/ (out.t = "number" /\ out.fin)
           /\ (EmptyInput(in) \/ NonNumericInput(in) \/ NonFiniteInput(in)) =>
                out = Null

(***************************************************************************)
(* Properties of filterNyseNasdaq                                          *)
(***************************************************************************)
(* the uppercased symbol of the event is a key of the map *)
InMap(ev, m) ==
  \E i \in 1..Len(m) : m[i].symbol = Str(ToUpperCase(ev.symbol))

(* the uppercased symbol of the event maps to exactly "NYSE" or "NASDAQ" *)
MapsToTarget(ev, m) ==
  \E i \in 1..Len(m) :
     /\ m[i].symbol = Str(ToUpperCase(ev.symbol))
     /\ m[i].exchange \in {Str(<<"NYSE">>), Str(<<"NASDAQ">>)}

ShouldKeep(ev, m, keepUnknown) ==
  MapsToTarget(ev, m) \/ (keepUnknown /\ ~InMap(ev, m))

(* C19: every call of filterNyseNasdaq returns, in the order of its input,
   exactly the events whose uppercased symbol maps to NYSE or NASDAQ and,
   when keepUnknown is true only, those whose uppercased symbol is not in
   the map; an event whose symbol maps to any other code, a differently
   cased "nasdaq" included, is not returned. *)
C19_FilterKeepsExactly ==
  \A c \in 1..Len(flt.calls) :
     LET call == flt.calls[c]
         keep == {i \in 1..Len(call.events) :
                    ShouldKeep(call.events[i], flt.map, call.keepUnknown)}
     IN  /\ Len(call.result) = Cardinality(keep)
         /\ \A i \in keep :
               call.result[Cardinality({j \in keep : j <= i})] = call.events[i]

C19_Witness ==
  /\ Len(flt.calls) = 1
  /\ flt.calls[1].keepUnknown
  /\ Len(flt.calls[1].events) = 3
  /\ Len(flt.calls[1].result) = 1
  /\ flt.calls[1].keptUnknown = 1
  /\ flt.calls[1].dropped = 2
  /\ \E i \in 1..Len(flt.map) : flt.map[i] = MapEntry(<<"B">>, <<"nasdaq">>)
  /\ \E i \in 1..3 : flt.calls[1].events[i].symbol = <<"B">>

(* C20: a call of filterNyseNasdaq with the default keepUnknown on the list
   that a call with the default keepUnknown and the same map returned
   returns that list: the same events in the same order. *)
C20_FilterIdempotent ==
  \A c \in 2..Len(flt.calls) :
     (~flt.calls[c - 1].keepUnknown /\ ~flt.calls[c].keepUnknown) =>
        /\ flt.calls[c].events = flt.calls[c - 1].result
        /\ flt.calls[c].result = flt.calls[c - 1].result

C20_Witness ==
  /\ Len(flt.calls) = 2
  /\ ~flt.calls[1].keepUnknown
  /\ ~flt.calls[2].keepUnknown
  /\ Len(flt.calls[1].events) = 3
  /\ Len(flt.calls[2].result) = 2
  /\ flt.calls[2].result[1] # flt.calls[2].result[2]

(* C21: for the arguments of every call, the list returned with keepUnknown
   false is the list returned with keepUnknown true less the events whose
   uppercased symbol is not in the map, in the same order, and the events
   the second list has in addition are exactly the events of the input
   whose uppercased symbol is not in the map. *)
C21_KeepUnknownSuperset ==
  \A c \in 1..Len(flt.calls) :
     LET call   == flt.calls[c]
         other  == filterNyseNasdaq(call.events, call.map, ~call.keepUnknown).result
         strict == IF call.keepUnknown THEN other ELSE call.result
         loose  == IF call.keepUnknown THEN call.result ELSE other
     IN  /\ SelectSeq(loose, LAMBDA ev : InMap(ev, call.map)) = strict
         /\ SelectSeq(loose, LAMBDA ev : ~InMap(ev, call.map)) =
              SelectSeq(call.events, LAMBDA ev : ~InMap(ev, call.map))

C21_Witness ==
  /\ Len(flt.calls) = 1
  /\ flt.calls[1].keepUnknown
  /\ Len(flt.calls[1].events) = 3
  /\ flt.calls[1].keptNyseNasdaq = 1
  /\ flt.calls[1].keptUnknown = 1
  /\ flt.calls[1].dropped = 1
  /\ Len(flt.calls[1].result) = 2

(* C22: the three counts of every call add up to the number of input events
   and the returned list has kept-target + kept-unknown events; a default
   call on 359 events of which 42 resolve to NYSE or NASDAQ returns 42
   events, counts 317 dropped and logs these numbers. *)
C22_CountsPartitionInput ==
  \A c \in 1..Len(flt.calls) :
     LET call == flt.calls[c]
     IN  /\ call.keptNyseNasdaq + call.keptUnknown + call.dropped = Len(call.events)
         /\ Len(call.result) = call.keptNyseNasdaq + call.keptUnknown
         /\ call.keptNyseNasdaq >= 0 /\ call.keptUnknown >= 0 /\ call.dropped >= 0
         /\ (Len(call.events) = 359 /\ call.keptNyseNasdaq = 42
               /\ ~call.keepUnknown) =>
              /\ Len(call.result) = 42
              /\ call.dropped = 317
              /\ <<"[FMP] Filter: ", "4", "2", " NYSE/NASDAQ", ", ", "3", "1", "7",
                   " dropped", " (of ", "3", "5", "9", " total events).">> \in logs

C22_Witness ==
  /\ Len(flt.calls) = 1
  /\ ~flt.calls[1].keepUnknown
  /\ Len(flt.calls[1].events) = 359
  /\ Len(flt.calls[1].result) = 42
  /\ flt.calls[1].dropped = 317

(* C23: a call of filterNyseNasdaq leaves its arguments as they were: the
   event list has the same events in the same order, the map the same
   entries, the caller still holds both unchanged, and every returned event
   is one of the input records, unmodified. *)
C23_FilterLeavesInputs ==
  \A c \in 1..Len(flt.calls) :
     LET call == flt.calls[c]
     IN  /\ call.eventsAfter = call.events
         /\ call.mapAfter = call.map
         /\ flt.map = call.map
         /\ flt.events = flt.calls[1].events
         /\ \A k \in 1..Len(call.result) :
               \E i \in 1..Len(call.events) : call.result[k] = call.events[i]

C23_Witness ==
  /\ Len(flt.calls) = 2
  /\ Len(flt.events) = 3
  /\ Len(flt.calls[1].result) = 1
  /\ flt.calls[1].keptNyseNasdaq = 1
  /\ flt.calls[1].result[1].raw.symbol = Str(<<"B">>)
  /\ Len(flt.map) = 3

(***************************************************************************)
(* Properties of the transcript providers                                  *)
(***************************************************************************)
(* the date has the form YYYY-MM-DD *)
WellFormedDate(d) ==
  /\ Len(d) = 10
  /\ d[5] = "-" /\ d[8] = "-"
  /\ \A i \in {1, 2, 3, 4, 6, 7, 9, 10} : d[i] \in Digits

DateYear(d) == DecimalValue(SubSeq(d, 1, 4))

DateMonth(d) == DecimalValue(SubSeq(d, 6, 7))

(* the period the call of a given month reports on *)
ReportedPeriod(year, month) ==
  CASE month \in 1..3   -> [year |-> year - 1, quarter |-> 4]
    [] month \in 4..6   -> [year |-> year, quarter |-> 1]
    [] month \in 7..9   -> [year |-> year, quarter |-> 2]
    [] month \in 10..12 -> [year |-> year, quarter |-> 3]

(* fetchTranscript of a constructed provider has been called *)
TranscriptCalled ==
  op \in ProviderOps /\ Trim(apiKey) # <<>> /\ tr.pc \notin {"new", "ready"}

(* C24: for a callDate YYYY-MM-DD with month 1 to 12, fetchTranscript of
   either provider resolves months 1-3 to quarter 4 of the year before,
   months 4-6, 7-9, 10-12 to quarters 1, 2, 3 of the same year, and its
   request URL carries exactly that year and quarter. *)
C24_FiscalQuarter ==
  (TranscriptCalled /\ WellFormedDate(tr.callDate)
     /\ DateMonth(tr.callDate) \in 1..12) =>
     LET p == ReportedPeriod(DateYear(tr.callDate), DateMonth(tr.callDate))
     IN  /\ tr.year = p.year
         /\ tr.quarter = p.quarter
         /\ tr.requests = 0 => tr.pc = "request"
         /\ Contains(tr.url \o <<"&">>,
                     <<"&", "year", "=">> \o NumText(p.year)
                       \o <<"&", "quarter", "=">> \o NumText(p.quarter) \o <<"&">>)

C24_Witness ==
  /\ op = "fmpTranscript"
  /\ tr.pc = "request"
  /\ tr.callDate = <<"2", "0", "2", "6", "-", "0", "2", "-", "2", "5">>
  /\ tr.year = 2025
  /\ tr.quarter = 4

(* the first element of the body, or the body itself, is an object with
   usable text: for API Ninjas a speaker turn with non-blank text or a
   non-blank transcript field, for FMP a non-blank content field *)
HasUsableText(o, raw) ==
  /\ raw.t = "object"
  /\ IF o = "ninjas"
     THEN \/ \E i \in 1..Len(SpeakerTurns(raw)) : ~Blank(SpeakerTurns(raw)[i].text)
          \/ ~Blank(raw.transcript)
     ELSE ~Blank(raw.content)

IsEnvelope(body) == body.type = "object" /\ body.errKey

(* the upstream answer says that no document exists *)
NoDocument ==
  \/ tr.outcome = "404 Not Found"
  \/ /\ tr.outcome = "200 json"
     /\ ~(op = "fmpTranscript" /\ IsEnvelope(tr.received))
     /\ ~HasUsableText(op, tr.received.first)

TranscriptFailed == TranscriptCalled /\ tr.pc = "thrown" /\ tr.requests >= 1

(* C25: a fetchTranscript call that failed because no document exists (404,
   an empty or non-object body, no usable text) has thrown a
   TranscriptNotFoundError whose symbol, callDate and providerName are the
   requested symbol, the requested call date and the provider's name, on
   every such path; a call that failed for any other reason has thrown an
   error of another class. *)
C25_NotFoundCarriesRequest ==
  TranscriptFailed =>
    IF NoDocument
    THEN /\ tr.err.class = "TranscriptNotFoundError"
         /\ tr.err.symbol = tr.symbol
         /\ tr.err.callDate = tr.callDate
         /\ tr.err.providerName = ProviderName(op)
    ELSE tr.err.class # "TranscriptNotFoundError"

TranscriptReturned == TranscriptCalled /\ tr.pc = "returned"

(* a 2xx JSON body that is not an FMP error envelope has been read *)
BodyRead ==
  /\ TranscriptCalled
  /\ tr.outcome = "200 json"
  /\ ~(op = "fmpTranscript" /\ IsEnvelope(tr.received))

(* C26: a Transcript that fetchTranscript returned has a text that is
   neither empty nor white space only, taken from a body with usable text;
   and a body without usable text has made the call throw
   TranscriptNotFoundError instead of returning. *)
C26_NoEmptyTranscript ==
  /\ TranscriptReturned =>
       /\ tr.transcript.text # <<>>
       /\ Trim(tr.transcript.text) # <<>>
       /\ HasUsableText(op, tr.received.first)
  /\ (BodyRead /\ ~HasUsableText(op, tr.received.first)) =>
       /\ tr.pc = "thrown"
       /\ tr.err.class = "TranscriptNotFoundError"
       /\ tr.transcript = NoTranscript

C26_Witness ==
  /\ BodyRead
  /\ op = "fmpTranscript"
  /\ tr.received.first.content = Str(<<" ">>)
  /\ tr.pc = "thrown"
  /\ tr.err.class = "TranscriptNotFoundError"

(* the speaker turns of raw whose text is not empty, in the order of the list *)
TurnsWithText(raw) == SelectSeq(SpeakerTurns(raw), LAMBDA t : ~Blank(t.text))

SpeakerLabel(turn) ==
  IF turn.speaker.t \in {"undefined", "null"} THEN <<"Unknown">>
  ELSE Trim(String(turn.speaker))

NinjasObjectRead == op = "ninjas" /\ BodyRead /\ tr.received.first.t = "object"

(* C27: for an API Ninjas response object, (a) when its speaker-turn list has
   turns with non-empty text, the returned text split at the blank lines has
   one line per such turn, in the order of the list, each "speaker: text",
   and turns with empty text contribute no line; (b) otherwise, when it has a
   non-empty flat transcript field, the returned text is that field; (c) when
   it has neither, the call has thrown TranscriptNotFoundError. *)
C27_NinjasBothShapes ==
  NinjasObjectRead =>
    LET raw   == tr.received.first
        turns == TurnsWithText(raw)
        lines == Split(tr.transcript.text, "\n\n")
    IN  IF turns # <<>>
        THEN /\ tr.pc = "returned"
             /\ Len(lines) = Len(turns)
             /\ \A k \in 1..Len(turns) :
                  lines[k] = SpeakerLabel(turns[k]) \o <<": ">>
                               \o Trim(String(turns[k].text))
        ELSE IF ~Blank(raw.transcript)
        THEN /\ tr.pc = "returned"
             /\ tr.transcript.text = Trim(String(raw.transcript))
        ELSE /\ tr.pc = "thrown"
             /\ tr.err.class = "TranscriptNotFoundError"

C27_Witness ==
  /\ NinjasObjectRead
  /\ tr.pc = "returned"
  /\ Len(SpeakerTurns(tr.received.first)) = 3
  /\ Len(Split(tr.transcript.text, "\n\n")) = 2

(* the FMP provider has read a 2xx JSON body that is a non-array object with
   an "Error Message" key *)
EnvelopeReceived ==
  /\ op = "fmpTranscript"
  /\ TranscriptCalled
  /\ tr.outcome = "200 json"
  /\ IsEnvelope(tr.received)

(* C28: when the FMP provider reads a 2xx JSON body that is an error
   envelope, fetchTranscript has thrown a plain Error whose message is
   "[FMP] API error: " followed by the envelope's message, whatever the
   content field of the body holds: never a TranscriptNotFoundError and
   never a Transcript. *)
C28_EnvelopeIsApiError ==
  EnvelopeReceived =>
    /\ tr.pc = "thrown"
    /\ tr.err.class = "Error"
    /\ tr.err.msg = <<"[", "FMP", "] API error: ">> \o tr.received.errMsg
    /\ tr.transcript = NoTranscript

C28_Witness ==
  /\ EnvelopeReceived
  /\ ~Blank(tr.received.first.content)
  /\ tr.pc = "thrown"
  /\ tr.err.class = "Error"

(* the credential is missing, empty or white space only *)
NoCredential == op \in ProviderOps /\ Trim(apiKey) = <<>>

(* C29: a provider given a missing, empty or white-space-only credential is
   never constructed: the constructor throws the "Missing API key" error, and
   no fetchTranscript call starts, builds a URL or a header, or sends a
   request with it. *)
C29_NoProviderWithoutCredential ==
  NoCredential =>
    /\ tr.pc \in {"new", "thrown"}
    /\ tr.requests = 0
    /\ tr.url = <<>>
    /\ tr.header = <<>>
    /\ tr.outcome = "none"
    /\ tr.pc = "thrown" =>
         /\ tr.err.class = "Error"
         /\ tr.err.msg = <<"[", ProviderName(op), "] Missing API key. Set ",
                           IF op = "ninjas" THEN "NINJAS_API_KEY" ELSE "FMP_API_KEY",
                           " in your environment.">>

C29_Witness ==
  /\ NoCredential
  /\ apiKey # <<>>
  /\ tr.pc = "thrown"
  /\ tr.requests = 0

(* the outcomes of one request that are transient upstream failures *)
TransientFailures == {"neterr", StatusTok(429), StatusTok(503)}

(* C30: in a fetchTranscript call of either provider, a step in which the
   first request ends in a transient failure (transport failure, HTTP 429 or
   503) does not end the call: fetchTranscript has not thrown yet and goes on
   to a further request for the same symbol and period. *)
C30_TransientFailureRetried ==
  [][(/\ op \in ProviderOps
      /\ tr.pc = "request"
      /\ tr.requests = 0
      /\ tr'.requests = 1
      /\ tr'.outcome \in TransientFailures)
     => (/\ tr'.pc # "thrown"
         /\ tr'.symbol = tr.symbol
         /\ tr'.year = tr.year
         /\ tr'.quarter = tr.quarter)]_vars


(***************************************************************************)
(* Properties across the JSON-fetching boundaries                          *)
(***************************************************************************)
(* fetchJson has parsed a 2xx body that is an error envelope *)
FetchJsonEnvelope ==
  /\ op \in {"calendar", "build"}
  /\ fj.outcome = "200 json"
  /\ IsEnvelope(fj.received)

(* a transcript provider has parsed a 2xx body that is an error envelope *)
ProviderEnvelope ==
  /\ TranscriptCalled
  /\ tr.outcome = "200 json"
  /\ IsEnvelope(tr.received)

(* C35: at each of the three JSON-fetching boundaries (fetchJson, the API
   Ninjas provider, the FMP provider) a 2xx body that is an error envelope
   makes the call throw a plain API error: the body is not handed on as
   data, no Transcript is built from it, and it is not reported as a missing
   document. *)
C35_EnvelopeCheckedEverywhere ==
  /\ FetchJsonEnvelope =>
       /\ fj.pc = "thrown"
       /\ fj.body = JsonNone
  /\ ProviderEnvelope =>
       /\ tr.pc = "thrown"
       /\ tr.err.class = "Error"
       /\ tr.transcript = NoTranscript


(***************************************************************************)
(* Properties of the cache file across runs                                *)
(***************************************************************************)
(* the previous run built the map from the network and wrote it, and this
   run has read the cache file, which nothing wrote in between, within the
   TTL *)
ReloadAfterWrite ==
  /\ op = "build"
  /\ prev.pc = "returned"
  /\ prev.source = "network"
  /\ prev.write = "ok"
  /\ bld.pc # "start"
  /\ bld.loadedAt - prev.writtenAt <= CACHE_TTL_MS

(* C37: when the previous run persisted a map built from the network and
   this run loads the cache within the TTL, the map is served from the cache,
   has the same symbol-exchange entries in the same order as the map that was
   persisted, and the builtAt that is loaded is the time of the write. *)
C37_CacheRoundTrip ==
  ReloadAfterWrite =>
    /\ prev.map # <<>>
    /\ bld.pc = "returned"
    /\ bld.source = "cache"
    /\ bld.map = prev.map
    /\ tryLoadCache(bld.seen, bld.loadedAt).builtAt = prev.writtenAt

C37_Witness ==
  /\ ReloadAfterWrite
  /\ Len(prev.map) = 2
  /\ bld.source = "cache"

(* the step in which buildSymbolToExchangeMap, having built a non-empty map
   from the stock list, calls persistCache *)
PersistStep ==
  /\ op = "build"
  /\ bld.pc = "fetching"
  /\ fj.pc = "returned"
  /\ fj.body.type = "array"
  /\ BuildMap(fj.body.items) # <<>>
  /\ bld'.write \in WriteOutcomes
  /\ bld'.written = CachePayload(BuildMap(fj.body.items), now)

(* C38: the cache file changes only in the step of buildSymbolToExchangeMap
   that follows a successful network build; a call served from the cache and
   a call that failed (empty key, fetch failure, non-list payload, empty
   list, zero parsed entries) have attempted no write, so the file's content
   and builtAt are what they were when the call started. *)
C38_WriteOnlyAfterNetworkBuild ==
  /\ [][file' # file => PersistStep]_vars
  /\ []((op = "build" /\ (bld.source = "cache" \/ bld.pc = "thrown"))
          => (bld.write = "none" /\ bld.written = NoPayload))

C38_Witness ==
  /\ op = "build"
  /\ bld.pc = "thrown"
  /\ bld.err = ZeroEntriesError
  /\ bld.seen.text.json
  /\ file = bld.seen


(***************************************************************************)
(* Termination of fetchJson                                                *)
(***************************************************************************)
FetchJsonDone == fj.pc \in {"returned", "thrown"}

(* the throw of line 151, after the loop *)
ExhaustedThrow ==
  /\ fj.pc = "thrown"
  /\ Len(fj.err) >= 1
  /\ fj.err[1] = "[FMP] Exhausted "

(* C39: when every HTTP request and every sleep completes, a call of
   fetchJson that has been started eventually returns or throws; it starts
   at most 2 sleeps, sleeps only when an attempt is left, every sleep that
   ends is followed by the next attempt, and the throw placed after the loop
   is never the way the call ends. *)
C39_FetchJsonTerminates ==
  /\ [](/\ fj.sleeps <= 2
        /\ fj.pc = "sleeping" => fj.attempt < MAX_ATTEMPTS
        /\ ~ExhaustedThrow)
  /\ [][(fj.pc = "sleeping" /\ fj'.pc # "sleeping")
          => (fj'.pc = "request" /\ fj'.attempt = fj.attempt + 1)]_vars
  /\ (fj.pc = "request") ~> FetchJsonDone

C39_Witness ==
  /\ fj.pc = "thrown"
  /\ fj.sleeps = 2
  /\ fj.requests = 3
  /\ fj.attempt = MAX_ATTEMPTS


(***************************************************************************)
(* The two providers compared                                              *)
(***************************************************************************)
(* the class of what a fetchTranscript call ended in, as the caller of
   run.ts lines 139-157 tells them apart *)
OutcomeClass ==
  IF tr.pc = "returned" THEN "Transcript"
  ELSE IF tr.err.class = "TranscriptNotFoundError" THEN "TranscriptNotFoundError"
  ELSE "Error"

(* the class that the kind of the upstream outcome calls for, whichever
   provider is active *)
ClassOfUpstream ==
  IF tr.outcome = "404 Not Found" THEN "TranscriptNotFoundError"
  ELSE IF tr.outcome # "200 json" THEN "Error"
  ELSE IF tr.received.first.t # "object" THEN "TranscriptNotFoundError"
  ELSE IF HasUsableText(op, tr.received.first) THEN "Transcript"
  ELSE "TranscriptNotFoundError"

UpstreamAnswered ==
  /\ TranscriptCalled
  /\ tr.requests >= 1
  /\ tr.pc \in {"returned", "thrown"}
  /\ tr.outcome # "neterr"

(* C36: for each kind of upstream outcome (404, another non-success status,
   a non-JSON body, an empty list or a non-object body, a body with usable
   text, a body without usable text) the two providers end in the same
   class: the outcome class of a call depends on the kind of the upstream
   outcome alone, not on the provider, and a returned Transcript has the
   uppercased symbol and the given callDate. *)
C36_ProvidersInterchangeable ==
  UpstreamAnswered =>
    /\ OutcomeClass = ClassOfUpstream
    /\ tr.pc = "returned" =>
         /\ tr.transcript.symbol = ToUpperCase(tr.symbol)
         /\ tr.transcript.callDate = tr.callDate


(***************************************************************************)
(* Properties of main() and fetchUsEarningsCalendar                        *)
(***************************************************************************)
TaskFailed == run.calTask = "thrown" \/ run.mapTask = "thrown"

(* C31: in fetchUsEarningsCalendar the calendar fetch and the map build are
   both started before either has ended, and they end in either order; the
   filter has run, once, only when both have returned; and when either has
   thrown, the filter has not run, no event list was returned, and no
   fetchTranscript call was started. *)
C31_JoinBeforeFilter ==
  /\ run.trace # <<>> =>
       /\ Len(run.trace) >= 2
       /\ run.trace[1] = "calendar started"
       /\ run.trace[2] = "map started"
  /\ run.filterRuns > 0 =>
       /\ run.filterRuns = 1
       /\ run.calTask = "returned"
       /\ run.mapTask = "returned"
  /\ run.calls # <<>> => run.filterRuns = 1
  /\ TaskFailed =>
       /\ run.filterRuns = 0
       /\ ~run.returned
       /\ run.events = <<>>
       /\ run.calls = <<>>
       /\ run.pc \in {"acquire", "fatal"}

C31_Witness ==
  /\ run.trace = <<"calendar started", "map started", "map returned",
                   "calendar returned">>
  /\ run.mapSource = "network"
  /\ run.filterRuns = 1
  /\ run.pc = "loop"

(* the fetchTranscript calls that have not ended *)
InFlight == {k \in 1..Len(run.calls) : run.calls[k].state = "inflight"}

(* C32: at every moment of a run at most one fetchTranscript call is in
   flight; the calls are made for the events of the filtered list in the
   order of the list; and a call is started only in a state in which every
   call started before it has ended. *)
C32_FetchesSequential ==
  /\ [](/\ Cardinality(InFlight) <= 1
        /\ InFlight \subseteq {Len(run.calls)}
        /\ Len(run.calls) <= Len(run.events)
        /\ \A k \in 1..Len(run.calls) :
             /\ run.calls[k].symbol = run.events[k].symbol
             /\ run.calls[k].callDate = run.events[k].reportDate)
  /\ [][Len(run.calls') > Len(run.calls)
          => (InFlight = {} /\ Len(run.calls') = Len(run.calls) + 1)]_vars

C32_Witness ==
  /\ Len(run.calls) = 2
  /\ run.calls[1].state = "Error"
  /\ run.calls[2].state = "inflight"
  /\ run.pc = "awaiting"

(* the calls that ended in class c *)
Ended(c) == {k \in 1..Len(run.calls) : run.calls[k].state = c}

BatchStarted == run.pc \in {"loop", "awaiting"}

(* C33: once the loop over the filtered events has started, main leaves it
   only for the summary, whatever the calls end in; each call that ended
   incremented exactly one counter (a Transcript fetched, a
   TranscriptNotFoundError skipped, any other error errored); and, every
   call returning or throwing, the run reaches the summary, where every
   event was attempted exactly once and fetched + skipped + errored is the
   number of events. *)
C33_BatchNeverAborts ==
  /\ [](/\ run.fetched = Cardinality(Ended("Transcript"))
        /\ run.skipped = Cardinality(Ended("TranscriptNotFoundError"))
        /\ run.errored = Cardinality(Ended("Error"))
        /\ run.pc = "summary" =>
             /\ Len(run.calls) = Len(run.events)
             /\ InFlight = {}
             /\ run.fetched + run.skipped + run.errored = Len(run.events)
             /\ \A k \in 1..Len(run.events) :
                  run.calls[k].symbol = run.events[k].symbol)
  /\ [][BatchStarted => run'.pc \in {"loop", "awaiting", "summary"}]_vars
  /\ BatchStarted ~> (run.pc = "summary")

C33_Witness ==
  /\ run.pc = "summary"
  /\ run.fetched = 1
  /\ run.skipped = 1
  /\ run.errored = 1
  /\ run.calls[1].state = "Error"


(***************************************************************************)
(* Properties of the cache file shared by several processes                *)
(***************************************************************************)
(* the map of the file as it was before the write, and the map being
   written *)
MapBefore == LoadText(rw.before, now).map

MapWritten == rw.w.map

(* C34: a reader whose tryLoadCache ran while another process was in
   persistCache has not thrown, and has either treated the file as a miss
   or obtained a complete map: the one the file held before the write or
   the one being written. *)
C34_RaceIsBenign ==
  \A i \in DOMAIN rw.r :
    rw.r[i].pc = "done" =>
      /\ rw.r[i].result.result \in {"hit", "miss"}
      /\ rw.r[i].result.result = "hit" =>
           \/ rw.before # <<>> /\ rw.r[i].result.map = MapBefore
           \/ rw.w.pc # "idle" /\ rw.r[i].result.map = MapWritten

====
